---- MODULE Spec2Model ----
(***************************************************************************)
(* The graph query and transaction layer of opencti-graphql                *)
(* (src/opencti-graphql/src/database/grakn.js) as a state machine.         *)
(*                                                                         *)
(* Every await of the JavaScript source is a suspension point, so every    *)
(* handler is cut into one action per awaited engine call (or per run of   *)
(* consecutive awaits that share one failure handler).  An engine call     *)
(* either succeeds or rejects; the rejection runs the enclosing catch      *)
(* block in the same step, as the microtask queue does.                    *)
(***************************************************************************)
EXTENDS Integers, Sequences, FiniteSets, TLC

\* ------------------------------------------------------------------ bounds
MaxVals == 2      \* longest value list handed to updateAttribute
MaxAttrs == 2     \* most attribute edges on a concept handed to getAttributes
MaxOps == 1       \* operations invoked one after the other on the store
MaxUpdates == 2   \* updateAttribute calls made one after the other
MaxFirst == 2     \* largest page size asked of a pagination call
MaxOffset == 11   \* largest offset a caller-made cursor encodes
MaxPages == 3     \* pagination calls one list view makes in a row
MaxPattern == 2   \* longest query pattern of an explanation, in characters
MaxInferences == 2  \* most answers in the explanation of an inferred relation

\* ------------------------------------------------------- program constants
String == "String"
Date == "Date"
Long == "Long"

multipleAttributes ==
  {"stix_label", "alias", "grant", "platform", "required_permission"}

statsDateAttributes == {"first_seen", "last_seen", "published"}

\* ------------------------------------------------------------------- text
\* A text is a sequence of one-character (or one-token) strings.
BS == <<"\\">>
QT == <<"\"">>

RECURSIVE ReplaceAll(_, _, _)
\* String.prototype.replace(/pat/g, rep): leftmost, non-overlapping.
ReplaceAll(s, pat, rep) ==
  IF Len(s) < Len(pat) THEN s
  ELSE IF SubSeq(s, 1, Len(pat)) = pat
       THEN rep \o ReplaceAll(SubSeq(s, Len(pat) + 1, Len(s)), pat, rep)
       ELSE <<Head(s)>> \o ReplaceAll(Tail(s), pat, rep)

prepareString(s) ==
  IF s = <<>> THEN <<>>
  ELSE ReplaceAll(ReplaceAll(s, BS, BS \o BS), QT, BS \o QT)

\* value.replace(/\\"/g, '"').replace(/\\\\/g, '\\')
unescapeString(v) == ReplaceAll(ReplaceAll(v, BS \o QT, QT), BS \o BS, BS)

\* A date is <<year, "-", month, "-", day, "T", time>> followed by whatever
\* is finer than a second; the formats keep a prefix of it.
prepareDate(d) == SubSeq(d, 1, IF Len(d) < 7 THEN Len(d) ELSE 7)
dayFormat(d) == SubSeq(d, 1, IF Len(d) < 5 THEN Len(d) ELSE 5)
monthFormat(d) == SubSeq(d, 1, IF Len(d) < 3 THEN Len(d) ELSE 3)
yearFormat(d) == SubSeq(d, 1, IF Len(d) < 1 THEN Len(d) ELSE 1)

\* ------------------------------------------------------------------ graph
\* nodes: the identifiers of the entities and relations that exist;
\* rels:  <<relation id, from id, to id>>;
\* has:   <<owner id, attribute type, stored text>> ownership edges;
\* attrs: <<attribute type, stored text>> value nodes.
EmptyGraph == [nodes |-> {}, rels |-> {}, has |-> {}, attrs |-> {}]

\* The data type the schema declares for an attribute type ("none": the
\* type does not exist, the label query of updateAttribute has no answer).
attrType(key) ==
  CASE key \in {"name", "alias", "first_seen_day", "first_seen_month",
                "first_seen_year"} -> String
    [] key = "first_seen" -> Date
    [] key = "weight" -> Long
    [] OTHER -> "none"

RECURSIVE SetToSeq(_)
\* The order in which the engine hands out a set of answers.
SetToSeq(S) ==
  IF S = {} THEN <<>>
  ELSE LET x == CHOOSE y \in S : TRUE IN <<x>> \o SetToSeq(S \ {x})

Range(f) == {f[i] : i \in DOMAIN f}

\* The owners of a value node: the answers of `$rel($x)` for the node $x.
Owners(g, key, text) == {c \in g.nodes : <<c, key, text>> \in g.has}

\* insert $m has key text: the value node is created unless it exists.
InsertHas(g, id, key, text) ==
  [g EXCEPT !.has = @ \cup {<<id, key, text>>},
            !.attrs = @ \cup {<<key, text>>}]

\* delete $d for the ownership edge $d of `id` towards the value node.
DeleteEdge(g, id, key, text) == [g EXCEPT !.has = @ \ {<<id, key, text>>}]

\* delete $attr for a value node: the node goes with every edge to it.
DeleteAttr(g, key, text) ==
  [g EXCEPT !.attrs = @ \ {<<key, text>>},
            !.has = {h \in @ : ~ (h[2] = key /\ h[3] = text)}]

\* delete $x for an entity or a relation: the concept goes with its
\* ownership edges; a relation it plays a role in stays (orphaned).
DeleteConcept(g, id) ==
  [g EXCEPT !.nodes = @ \ {id},
            !.rels = {r \in @ : r[1] # id},
            !.has = {h \in @ : h[1] # id}]

\* What a committed transaction leaves in the store: what it deleted from
\* its snapshot is removed, what it added is added.
MergeCommit(g, snap, wg) ==
  [nodes |-> (g.nodes \ (snap.nodes \ wg.nodes)) \cup (wg.nodes \ snap.nodes),
   rels |-> (g.rels \ (snap.rels \ wg.rels)) \cup (wg.rels \ snap.rels),
   has |-> (g.has \ (snap.has \ wg.has)) \cup (wg.has \ snap.has),
   attrs |-> (g.attrs \ (snap.attrs \ wg.attrs)) \cup (wg.attrs \ snap.attrs)]

\* ---------------------------------------------------------------- results
\* What a promise settles with.  st: "ok" (resolved) or "err" (rejected).
\* kind, resolved: "Obj" (a record; ids = <<>> is the empty object {}),
\* "List", "Null", "Value" (a raw answer), "Number", "Undefined", "True",
\* "Id", "NodeRel" ({node, relation}), "Page", "Series";
\* kind, rejected: "Unknown" (the generic fault), "Raw" (the engine's own
\* error), "TypeError" (a JavaScript error).
\* A page has, besides, its end cursor (cur) and hasNextPage (more).
Res(st, kind, ids, n) ==
  [st |-> st, kind |-> kind, ids |-> ids, n |-> n, cur |-> <<>>,
   more |-> FALSE]
NoRes == Res("none", "none", <<>>, 0)
Ok(kind, ids, n) == Res("ok", kind, ids, n)
Err(kind) == Res("err", kind, <<>>, 0)
EmptyObj == Ok("Obj", <<>>, 0)
EmptyList == Ok("List", <<>>, 0)

VARIABLES
  session,       \* the module-level `session`: 0 is null, else a session id
  sessionCalls,  \* how many times client.session('grakn') was invoked
  loader,        \* the module-load client.session(...).then: pending | done
  graph,         \* the committed graph
  txs,           \* the transactions of the operation in flight
  op,            \* the operation the caller invoked and how it settled
  th,            \* the async functions in flight (two under Promise.all)
  calls,         \* how many operations the caller has invoked
  last,          \* the previous settled updateAttribute and the graph it left
  attrIn,        \* getAttributes: the attribute edges read from the concept
  attrOut,       \* getAttributes: the record returned
  answer,        \* relation readers: the answer row the engine handed out
  record,        \* relation readers: the relation record built from it
  bus,           \* the messages published on pubsub, oldest first
  connection     \* the list view: the edges relay holds, from how many pages

vars ==
  <<session, sessionCalls, loader, graph, txs, op, th, calls, last, attrIn,
    attrOut, answer, record, bus, connection>>

\* ---------------------------------------------------------- the functions
ReadFns ==
  {"getById", "queryOne", "queryMultiple", "getRelationById",
   "getRelationInferredById", "getSingleValue", "getObjects", "getRelations",
   "timeSeries", "distribution"}

\* The read functions that take the first answer row with iterator.next().
OneRowFns ==
  {"getById", "queryOne", "getRelationById", "getRelationInferredById"}

WriteFns ==
  {"createRelation", "updateAttribute", "deleteEntityById", "deleteById",
   "deleteRelationById"}

DeleteFns == {"deleteEntityById", "deleteById", "deleteRelationById"}

PaginateFns == {"paginate", "paginateRelationships"}

\* What the catch block of a read function returns.
Default(fn) ==
  IF fn \in OneRowFns \cup {"getSingleValue"} THEN EmptyObj ELSE EmptyList

\* The buckets of [startDate, endDate] at the requested interval.
Buckets == <<"b1", "b2">>

\* fillTimeSeries(startDate, endDate, interval, result): one entry per bucket
\* of the range, zero where the answers have none.
fillTimeSeries(rows) == Ok("Series", Buckets, Len(rows))

\* ------------------------------------------------------- bytes and base64
\* A string is the sequence of its code points, a buffer a sequence of bytes.
RECURSIVE utf8(_)
\* Buffer.from(string): the UTF-8 bytes (code points below 2048).
utf8(str) ==
  IF str = <<>> THEN <<>>
  ELSE (IF Head(str) < 128 THEN <<Head(str)>>
        ELSE <<192 + (Head(str) \div 64), 128 + (Head(str) % 64)>>)
       \o utf8(Tail(str))

RECURSIVE fromUtf8(_)
\* buffer.toString('utf8')
fromUtf8(bytes) ==
  IF bytes = <<>> THEN <<>>
  ELSE IF Head(bytes) >= 192 /\ Len(bytes) >= 2
       THEN <<(Head(bytes) - 192) * 64 + (bytes[2] - 128)>>
              \o fromUtf8(Tail(Tail(bytes)))
       ELSE <<Head(bytes)>> \o fromUtf8(Tail(bytes))

\* buffer.toString('ascii'): every byte a character, its high bit dropped.
toAscii(bytes) == [k \in DOMAIN bytes |-> bytes[k] % 128]

Pad == 64

RECURSIVE toBase64(_)
\* buffer.toString('base64'): the sextets (indices in the base64 alphabet),
\* Pad for '='.
toBase64(bytes) ==
  IF bytes = <<>> THEN <<>>
  ELSE IF Len(bytes) = 1
    THEN <<bytes[1] \div 4, (bytes[1] % 4) * 16, Pad, Pad>>
  ELSE IF Len(bytes) = 2
    THEN <<bytes[1] \div 4, (bytes[1] % 4) * 16 + (bytes[2] \div 16),
           (bytes[2] % 16) * 4, Pad>>
  ELSE <<bytes[1] \div 4, (bytes[1] % 4) * 16 + (bytes[2] \div 16),
         (bytes[2] % 16) * 4 + (bytes[3] \div 64), bytes[3] % 64>>
         \o toBase64(Tail(Tail(Tail(bytes))))

RECURSIVE fromBase64(_)
\* Buffer.from(text, 'base64')
fromBase64(text) ==
  IF Len(text) < 4 THEN <<>>
  ELSE (IF text[3] = Pad THEN <<text[1] * 4 + (text[2] \div 16)>>
        ELSE IF text[4] = Pad
          THEN <<text[1] * 4 + (text[2] \div 16),
                 (text[2] % 16) * 16 + (text[3] \div 4)>>
        ELSE <<text[1] * 4 + (text[2] \div 16),
               (text[2] % 16) * 16 + (text[3] \div 4),
               (text[3] % 4) * 64 + text[4]>>)
       \o fromBase64(Tail(Tail(Tail(Tail(text)))))

\* ---------------------------------------------------------------- cursors
\* A cursor is the base64 text of 'arrayconnection:' followed by the decimal
\* digits of an offset.
NoCursor == <<>>
PREFIX ==
  <<97, 114, 114, 97, 121, 99, 111, 110, 110, 101, 99, 116, 105, 111, 110,
    58>>
Digits == <<48, 49, 50, 51, 52, 53, 54, 55, 56, 57>>

\* base64(i) = Buffer.from(i, 'utf8').toString('base64') and its inverse
\* unbase64(i) = Buffer.from(i, 'base64').toString('utf8')
base64(str) == toBase64(utf8(str))
unbase64(c) == fromUtf8(fromBase64(c))

RECURSIVE toDigits(_)
\* String(n)
toDigits(n) ==
  IF n < 10 THEN <<Digits[n + 1]>>
  ELSE toDigits(n \div 10) \o <<Digits[(n % 10) + 1]>>

DigitValue(c) == c - Digits[1]

RECURSIVE parseDigits(_, _)
parseDigits(s, acc) ==
  IF s = <<>> \/ Head(s) \notin Range(Digits) THEN acc
  ELSE parseDigits(Tail(s), 10 * acc + DigitValue(Head(s)))

\* parseInt(s, 10): the number its leading digits write, NaN (-1) without any.
parseInt(s) ==
  IF s = <<>> \/ Head(s) \notin Range(Digits) THEN -1 ELSE parseDigits(s, 0)

\* The offset read from the first digit of the cursor alone.
cursorToFirstDigit(cursor) ==
  LET s == SubSeq(unbase64(cursor), Len(PREFIX) + 1, Len(unbase64(cursor)))
  IN  IF s = <<>> THEN -1 ELSE parseInt(<<Head(s)>>)

\* cursorToOffset: parseInt(unbase64(cursor).substring(PREFIX.length), 10)
cursorToOffset(cursor) ==
  parseInt(SubSeq(unbase64(cursor), Len(PREFIX) + 1, Len(unbase64(cursor))))

\* offsetToCursor: base64(PREFIX + offset)
offsetToCursor(offset) == base64(PREFIX \o toDigits(offset))

\* buildPagination(first, offset, instances, globalCount): the edges, and
\* pageInfo with hasNextPage = offset + returned < globalCount and the end
\* cursor of offset + returned.
buildPagination(first, offset, instances, globalCount) ==
  [Ok("Page", instances.ids, globalCount.n) EXCEPT
     !.cur = offsetToCursor(offset + Len(instances.ids)),
     !.more = offset + Len(instances.ids) < globalCount.n]

Args(id, to, q, key, value, agg) ==
  [id |-> id, to |-> to, q |-> q, key |-> key, value |-> value, agg |-> agg,
   first |-> 0, after |-> NoCursor, offset |-> 0, paged |-> FALSE,
   query |-> <<>>, token |-> <<>>]

\* The offset of every page, whatever the cursor.
firstPageOffset(after) == 0

\* const offset = after ? cursorToOffset(after) : 0
pageOffset(after) == IF after # NoCursor THEN cursorToOffset(after) ELSE 0

\* The rows the engine hands out with no limit applied.
offsetOnly(rows, offset, first) ==
  IF offset >= Len(rows) THEN <<>> ELSE SubSeq(rows, offset + 1, Len(rows))

\* The rows the engine hands out from the first one.
limitOnly(rows, offset, first) ==
  IF first >= Len(rows) THEN rows ELSE SubSeq(rows, 1, first)

\* `offset ${offset}; limit ${first};` on the answers of the engine.
offsetLimit(rows, offset, first) ==
  IF offset >= Len(rows) THEN <<>>
  ELSE SubSeq(rows, offset + 1,
              IF offset + first < Len(rows) THEN offset + first ELSE Len(rows))
NoArgs == Args("none", "none", {}, "none", <<>>, FALSE)

IdleT ==
  [fn |-> "none", cur |-> "none", pc |-> "idle", ret |-> "none",
   own |-> FALSE, kind |-> "read", tx |-> 0, sess |-> 0, a |-> NoArgs,
   rows |-> <<>>, res |-> NoRes, node |-> NoRes, work |-> <<>>,
   olds |-> <<>>, failed |-> FALSE, empty |-> FALSE, rowpc |-> <<>>]

NoLast ==
  [valid |-> FALSE, a |-> NoArgs, graph |-> EmptyGraph, res |-> NoRes]

\* The first step of a function once it holds its transaction.
FirstPc(cur) ==
  CASE cur \in ReadFns -> "query"
    [] cur = "write" -> "wQuery"
    [] cur = "createRelation" -> "crQuery"
    [] cur = "updateAttribute" -> "uaLabel"
    [] cur \in DeleteFns -> "delQuery"

\* An async function called by the operation, about to take its transaction.
Thread(fn, cur, kind, a) ==
  [IdleT EXCEPT !.fn = fn, !.cur = cur, !.pc = "take", !.own = TRUE,
                !.kind = kind, !.a = a]

Quiet == op.st # "running" /\ \A i \in DOMAIN th : th[i].pc \in {"idle", "done"}

\* The caller invokes an operation: nothing of the previous one is in flight.
Start(name, a, threads) ==
  /\ Quiet
  /\ op' = [name |-> name, st |-> "running", res |-> NoRes, a |-> a]
  /\ th' = threads
  /\ txs' = <<>>
  /\ calls' = calls + 1
  /\ last' = IF op.name \in {"updateAttribute"} \cup PaginateFns
                  /\ op.st = "resolved"
             THEN [valid |-> TRUE, a |-> op.a, graph |-> graph, res |-> op.res]
             ELSE NoLast
  /\ UNCHANGED <<session, sessionCalls, loader, graph, attrIn, attrOut,
                 answer, record, bus, connection>>

\* The caller invokes an operation that throws before it calls anything.
StartThrown(name, a, res) ==
  /\ Quiet
  /\ op' = [name |-> name, st |-> "rejected", res |-> res, a |-> a]
  /\ th' = <<IdleT, IdleT>>
  /\ txs' = <<>>
  /\ calls' = calls + 1
  /\ last' = NoLast
  /\ UNCHANGED <<session, sessionCalls, loader, graph, attrIn, attrOut,
                 answer, record, bus, connection>>

\* getSingleValueNumber: getSingleValue(query, infer).then(data => data.number())
\* outside any await, so the try around it catches nothing.
Wrap(fn, res) ==
  IF fn = "getSingleValueNumber"
  THEN IF res.kind = "NumAnswer" THEN Ok("Number", <<>>, res.n)
       ELSE Err("TypeError")
  ELSE res

\* How the operation's promise stands once function i has settled with res:
\* Promise.all rejects with the first rejection and resolves with the last
\* resolution; any other operation settles as its one function does.
OpAfter(i, res) ==
  IF op.st # "running" THEN op
  ELSE IF op.name \in PaginateFns
       THEN IF res.st = "err"
            THEN [op EXCEPT !.st = "rejected", !.res = res]
            ELSE IF th[3 - i].pc = "done" /\ th[3 - i].res.st = "ok"
                 THEN [op EXCEPT
                         !.st = "resolved",
                         !.res = IF i = 1
                                 THEN buildPagination(op.a.first, op.a.offset,
                                                      th[2].res, res)
                                 ELSE buildPagination(op.a.first, op.a.offset,
                                                      res, th[1].res)]
                 ELSE op
       ELSE [op EXCEPT !.st = IF res.st = "err" THEN "rejected" ELSE "resolved",
                       !.res = res]

\* The functions of the domain that chain .then(.. => notify(..)) on the
\* promise of a function of the core.
ThenNotifyFns == {"threatActorAddRelation"}

\* A handler that runs however the promise settled.
thenAlways(res) == TRUE

\* promise.then(onFulfilled): the handler runs when the promise resolved.
thenRuns(res) == res.st = "ok"

\* The function in execution settles with res: the operation settles with
\* it, unless a .then handler of the operation is still to run on it.
Finish(i, t, res) ==
  IF t.fn \in ThenNotifyFns /\ t.pc # "then" /\ thenRuns(res)
  THEN /\ th' = [th EXCEPT ![i] = [t EXCEPT !.pc = "then", !.node = res]]
       /\ op' = op
  ELSE /\ th' = [th EXCEPT ![i] = [t EXCEPT !.pc = "done", !.res = res]]
       /\ op' = OpAfter(i, res)

\* A function returns res: to the operation's caller, or to the function
\* that awaited it (createRelation, updateAttribute, deleteRelationById).
Return(i, t, res) ==
  IF t.ret = "none" THEN Finish(i, t, Wrap(t.fn, res))
  ELSE IF t.ret = "drbThen"
       THEN Finish(i, t, Ok("NodeRel", res.ids \o <<t.a.to>>, 0))
       ELSE /\ th' = [th EXCEPT ![i] = [t EXCEPT !.node = res, !.pc = t.ret,
                                                 !.cur = t.fn, !.own = TRUE,
                                                 !.ret = "none"]]
            /\ op' = op

\* ---------------------------------------------------------------- session
\* client.session('grakn').then(graknSession => { session = graknSession; })
\* of the module load: the call was made at load (it is call 1), the promise
\* resolves at some later turn.
LoadSession ==
  /\ loader = "pending"
  /\ loader' = "done"
  /\ session' = 1
  /\ UNCHANGED <<sessionCalls, graph, txs, op, th, calls, last, attrIn, attrOut,
                 answer, record, bus, connection>>

\* session.transaction().read() / .write(): the transaction opens on the
\* committed graph, or the engine refuses it; no caller wraps the take in
\* its try, so the refusal rejects the function with the engine's error.
NewTx(i, t, s) ==
  \E ok \in BOOLEAN :
    IF ok
    THEN /\ txs' = Append(txs, [kind |-> t.kind, status |-> "open",
                                sess |-> s, snap |-> graph, wg |-> graph,
                                failed |-> FALSE, commits |-> 0])
         /\ th' = [th EXCEPT ![i] = [t EXCEPT !.tx = Len(txs) + 1,
                                              !.pc = FirstPc(t.cur)]]
         /\ op' = op
    ELSE /\ txs' = txs
         /\ Finish(i, [t EXCEPT !.failed = TRUE], Err("Raw"))

\* The body of takeReadTx and takeWriteTx up to their first suspension.
TakeTx(i) ==
  /\ th[i].pc = "take"
  /\ IF session = 0
     THEN /\ sessionCalls' = sessionCalls + 1
          /\ th' = [th EXCEPT ![i].pc = "sess", ![i].sess = sessionCalls + 1]
          /\ UNCHANGED <<session, txs, op>>
     ELSE /\ NewTx(i, th[i], session)
          /\ UNCHANGED <<session, sessionCalls>>
  /\ UNCHANGED <<loader, graph, calls, last, attrIn, attrOut,
                 answer, record, bus, connection>>

takeReadTx(i) == th[i].kind = "read" /\ TakeTx(i)

takeWriteTx(i) == th[i].kind = "write" /\ TakeTx(i)

\* session = await client.session('grakn') resumes: the session this call
\* created is stored and the transaction is made from it.
SessionCreated(i) ==
  /\ th[i].pc = "sess"
  /\ session' = th[i].sess
  /\ NewTx(i, th[i], th[i].sess)
  /\ UNCHANGED <<sessionCalls, loader, graph, calls, last, attrIn, attrOut,
                 answer, record, bus, connection>>

\* ------------------------------------------------------- the read skeleton
\* try { query; next | collect; resolve attributes; await close; return }
\* catch { close(); return default } of every read function.

\* The concepts the function's query matches in the graph its transaction sees.
Answers(t, g) ==
  IF t.cur = "getById" THEN {t.a.id} \cap g.nodes ELSE t.a.q \cap g.nodes

\* A query text is the sequence of its words, blanks and signs.
WordTokens == {"x", "m", "so", "marking", "Sector"}

\* /match\s(?:\$|{\s\$)(\w+)[\s]/i at position k of the text: the variable
\* it captures, or "" where it does not match.
instanceKeyAt(query, k) ==
  IF k + 4 <= Len(query) /\ query[k] = "match" /\ query[k + 1] = " "
     /\ query[k + 2] = "$" /\ query[k + 3] \in WordTokens
     /\ query[k + 4] = " "
  THEN query[k + 3]
  ELSE IF k + 6 <= Len(query) /\ query[k] = "match" /\ query[k + 1] = " "
          /\ query[k + 2] = "{" /\ query[k + 3] = " " /\ query[k + 4] = "$"
          /\ query[k + 5] \in WordTokens /\ query[k + 6] = " "
  THEN query[k + 5]
  ELSE ""

\* The exec of the expression on the whole text: the first match, or ""
\* for null.
instanceKey(query) ==
  LET hits == {k \in DOMAIN query : instanceKeyAt(query, k) # ""} IN
  IF hits = {} THEN ""
  ELSE instanceKeyAt(query, CHOOSE k \in hits : \A j \in hits : k <= j)

\* Whether queryRegex finds a relation in the decoded text: a variable
\* sign, and further on the semicolon that ends the relation.
relationShape(text) ==
  \E j, k \in DOMAIN text : j < k /\ text[j] = 36 /\ text[k] = 59

\* Buffer.from(queryPattern).toString('base64')
inferenceToken(queryPattern) == toBase64(utf8(queryPattern))

\* Buffer.from(id, 'base64').toString('ascii')
decodedQuery(id) == toAscii(fromBase64(id))

\* queryRegex[1] of getRelationInferredById on a text without a relation:
\* the exec is null, and the index throws inside the try.
parseThrows(t) ==
  t.cur = "getRelationInferredById" /\ ~ relationShape(decodedQuery(t.a.token))

\* An awaited call of a read function rejected, or its body threw: its catch.
\* The transaction is closed only by the function that took it (tx === null).
ReadCatch(i, t, engine) ==
  /\ txs' = [txs EXCEPT ![t.tx].failed = @ \/ engine,
                        ![t.tx].status = IF t.own THEN "closed" ELSE @]
  /\ Return(i, [t EXCEPT !.failed = @ \/ engine], Default(t.cur))

\* const iterator = await tx.query(query)
ReadQuery(i) ==
  /\ th[i].pc = "query"
  /\ \E ok \in BOOLEAN :
       IF parseThrows(th[i]) THEN ReadCatch(i, th[i], FALSE)
       ELSE IF ok
       THEN LET all == SetToSeq(Answers(th[i], txs[th[i].tx].wg))
                rows == IF th[i].a.paged
                        THEN offsetLimit(all, th[i].a.offset, th[i].a.first)
                        ELSE all
            IN
            /\ th' = [th EXCEPT ![i].pc = "fetch", ![i].rows = rows,
                                ![i].empty = (rows = <<>> /\ ~ th[i].a.agg)]
            /\ UNCHANGED <<txs, op>>
       ELSE ReadCatch(i, th[i], TRUE)
  /\ UNCHANGED <<session, sessionCalls, loader, graph, calls, last, attrIn, attrOut,
                 answer, record, bus, connection>>

\* await iterator.next() (null once the answers are exhausted) or
\* await iterator.collect(); answer.map() on null throws into the catch.
\* getSingleValue returns the answer as it is.
ReadFetch(i) ==
  LET t == th[i] IN
  /\ t.pc = "fetch"
  /\ \E ok \in BOOLEAN :
       IF ~ ok THEN ReadCatch(i, t, TRUE)
       ELSE IF t.cur = "getSingleValue"
            THEN /\ th' = [th EXCEPT
                       ![i].pc = "close",
                       ![i].res =
                         IF t.a.agg THEN Ok("NumAnswer", <<>>, Len(t.rows))
                         ELSE IF t.rows = <<>> THEN Ok("Null", <<>>, 0)
                         ELSE Ok("MapAnswer", <<Head(t.rows)>>, 0)]
                 /\ UNCHANGED <<txs, op>>
            ELSE IF t.cur \in OneRowFns /\ t.rows = <<>>
                 THEN ReadCatch(i, t, FALSE)
                 ELSE /\ th' = [th EXCEPT ![i].pc = "attrs"]
                      /\ UNCHANGED <<txs, op>>
  /\ UNCHANGED <<session, sessionCalls, loader, graph, calls, last, attrIn, attrOut,
                 answer, record, bus, connection>>

\* The record the function builds from its rows.
ReadResult(t) ==
  CASE t.cur \in OneRowFns -> Ok("Obj", <<Head(t.rows)>>, 0)
    [] t.cur = "timeSeries" -> fillTimeSeries(t.rows)
    [] OTHER -> Ok("List", t.rows, 0)

\* The awaited attribute resolution of the rows (getAttributes, type(),
\* isInferred(), owner().value(), number()).  A function that was handed its
\* transaction returns here; one that took it goes on to close it.
ReadAttrs(i) ==
  LET t == th[i] IN
  /\ t.pc = "attrs"
  /\ \E ok \in BOOLEAN :
       IF ~ ok THEN ReadCatch(i, t, TRUE)
       ELSE IF t.own
            THEN /\ th' = [th EXCEPT ![i].pc = "close",
                                     ![i].res = ReadResult(t)]
                 /\ UNCHANGED <<txs, op>>
            ELSE /\ Return(i, t, ReadResult(t))
                 /\ UNCHANGED txs
  /\ UNCHANGED <<session, sessionCalls, loader, graph, calls, last, attrIn, attrOut,
                 answer, record, bus, connection>>

\* await tx.close(); return result;
ReadClose(i) ==
  LET t == th[i] IN
  /\ t.pc = "close"
  /\ \E ok \in BOOLEAN :
       IF ok
       THEN /\ txs' = [txs EXCEPT ![t.tx].status = "closed"]
            /\ Return(i, t, t.res)
       ELSE ReadCatch(i, t, TRUE)
  /\ UNCHANGED <<session, sessionCalls, loader, graph, calls, last, attrIn, attrOut,
                 answer, record, bus, connection>>

\* ------------------------------------------------------ the write functions
\* await wTx.commit() succeeded: the pending changes reach the store.
Commit(t) ==
  /\ txs' = [txs EXCEPT ![t.tx].status = "committed", ![t.tx].commits = @ + 1]
  /\ graph' = MergeCommit(graph, txs[t.tx].snap, txs[t.tx].wg)

\* catch (error) { if (wTx) wTx.close(); throw new Unknown(); }
WriteCatch(i, t, engine) ==
  /\ txs' = [txs EXCEPT ![t.tx].failed = @ \/ engine, ![t.tx].status = "closed"]
  /\ Finish(i, [t EXCEPT !.failed = @ \/ engine], Err("Unknown"))
  /\ graph' = graph

\* write(query): no try around the query and the commit.
WriteQuery(i) ==
  LET t == th[i] IN
  /\ t.pc = "wQuery"
  /\ \E ok \in BOOLEAN :
       IF ok
       THEN /\ txs' = [txs EXCEPT ![t.tx].wg.nodes = @ \cup {t.a.id}]
            /\ th' = [th EXCEPT ![i].pc = "wCommit"]
            /\ op' = op
       ELSE /\ txs' = [txs EXCEPT ![t.tx].failed = TRUE]
            /\ Finish(i, [t EXCEPT !.failed = TRUE], Err("Raw"))
  /\ UNCHANGED <<session, sessionCalls, loader, graph, calls, last, attrIn, attrOut,
                 answer, record, bus, connection>>

WriteCommit(i) ==
  LET t == th[i] IN
  /\ t.pc = "wCommit"
  /\ \E ok \in BOOLEAN :
       IF ok
       THEN /\ Commit(t)
            /\ Finish(i, t, Ok("Undefined", <<>>, 0))
       ELSE /\ txs' = [txs EXCEPT ![t.tx].failed = TRUE]
            /\ Finish(i, [t EXCEPT !.failed = TRUE], Err("Raw"))
            /\ graph' = graph
  /\ UNCHANGED <<session, sessionCalls, loader, calls, last, attrIn, attrOut,
                 answer, record, bus, connection>>

\* The relation identifiers the engine may still hand out.
FreshRels == {"r2"}
FreshRel(g) == CHOOSE r \in FreshRels : r \notin g.nodes

\* createRelation: match $from id ..; $to id ..; insert $rel(..) isa ..;
\* then iterator.next() and answer.map().get('rel').  When an endpoint does
\* not exist nothing matches, next() is null and answer.map() throws.
CreateQuery(i) ==
  LET t == th[i]
      g == txs[t.tx].wg IN
  /\ t.pc = "crQuery"
  /\ \E ok \in BOOLEAN :
       IF ~ ok THEN WriteCatch(i, t, TRUE)
       ELSE IF {t.a.id, t.a.to} \subseteq g.nodes
            THEN LET r == FreshRel(g) IN
                 /\ txs' = [txs EXCEPT
                              ![t.tx].wg.nodes = @ \cup {r},
                              ![t.tx].wg.rels = @ \cup {<<r, t.a.id, t.a.to>>}]
                 \* const nodePromise = await getById(input.toId, wTx)
                 /\ th' = [th EXCEPT ![i].rows = <<r>>, ![i].pc = "query",
                                     ![i].cur = "getById", ![i].own = FALSE,
                                     ![i].ret = "crAttrs",
                                     ![i].a.id = t.a.to]
                 /\ UNCHANGED <<op, graph>>
            ELSE WriteCatch(i, t, FALSE)
  /\ UNCHANGED <<session, sessionCalls, loader, calls, last, attrIn, attrOut,
                 answer, record, bus, connection>>

\* const relationPromise = await getAttributes(createdRelation)
CreateAttrs(i) ==
  LET t == th[i] IN
  /\ t.pc = "crAttrs"
  /\ \E ok \in BOOLEAN :
       IF ok
       THEN /\ th' = [th EXCEPT ![i].pc = "crCommit"]
            /\ UNCHANGED <<txs, op, graph>>
       ELSE WriteCatch(i, t, TRUE)
  /\ UNCHANGED <<session, sessionCalls, loader, calls, last, attrIn, attrOut,
                 answer, record, bus, connection>>

\* await wTx.commit(); return {node, relation}
CreateCommit(i) ==
  LET t == th[i] IN
  /\ t.pc = "crCommit"
  /\ \E ok \in BOOLEAN :
       IF ok
       THEN /\ Commit(t)
            /\ Finish(i, t, Ok("NodeRel", t.node.ids \o t.rows, 0))
       ELSE WriteCatch(i, t, TRUE)
  /\ UNCHANGED <<session, sessionCalls, loader, calls, last, attrIn, attrOut,
                 answer, record, bus, connection>>

\* match $x id ..; $z($x, $y); delete $z, $x;  A relation pattern matches
\* the relations $x plays a role in and, as `$rel($x)` of updateAttribute
\* relies on, the ownership of each of its attributes; with neither there
\* is no answer and nothing is deleted.
deleteEntityQuery(g, id) ==
  LET incident == {r \in g.rels : id \in {r[2], r[3]}}
      owned == {h \in g.has : h[1] = id} IN
  IF id \in g.nodes /\ (incident # {} \/ owned # {})
  THEN [g EXCEPT !.nodes = (@ \ {id}) \ {r[1] : r \in incident},
                 !.rels = {r \in @ : r[1] # id /\ r \notin incident},
                 !.has = {h \in @ : h[1] # id
                                       /\ h[1] \notin {r[1] : r \in incident}}]
  ELSE g

\* The delete query of deleteEntityById, deleteById, deleteRelationById.
DeleteEffect(t, g) ==
  CASE t.fn = "deleteEntityById" -> deleteEntityQuery(g, t.a.id)
    [] t.fn = "deleteById" -> DeleteConcept(g, t.a.id)
    [] t.fn = "deleteRelationById" -> DeleteConcept(g, t.a.to)

DeleteQuery(i) ==
  LET t == th[i] IN
  /\ t.pc = "delQuery"
  /\ \E ok \in BOOLEAN :
       IF ok
       THEN /\ txs' = [txs EXCEPT ![t.tx].wg = DeleteEffect(t, @)]
            /\ th' = [th EXCEPT ![i].pc = "delCommit"]
            /\ UNCHANGED <<op, graph>>
       ELSE WriteCatch(i, t, TRUE)
  /\ UNCHANGED <<session, sessionCalls, loader, calls, last, attrIn, attrOut,
                 answer, record, bus, connection>>

\* await wTx.commit(); return Promise.resolve(id), or for deleteRelationById
\* return getById(id).then(..): the promise is returned, not awaited, so
\* its rejection does not reach the catch.
DeleteCommit(i) ==
  LET t == th[i] IN
  /\ t.pc = "delCommit"
  /\ \E ok \in BOOLEAN :
       IF ok
       THEN /\ Commit(t)
            /\ IF t.fn = "deleteRelationById"
               THEN /\ th' = [th EXCEPT ![i].pc = "take", ![i].cur = "getById",
                                        ![i].kind = "read",
                                        ![i].ret = "drbThen"]
                    /\ op' = op
               ELSE Finish(i, t, Ok("Id", <<t.a.id>>, 0))
       ELSE WriteCatch(i, t, TRUE)
  /\ UNCHANGED <<session, sessionCalls, loader, calls, last, attrIn, attrOut,
                 answer, record, bus, connection>>

\* ---------------------------------------------------------- updateAttribute
\* The literal of an old value in the count and delete queries, as the
\* engine compares it with the stored text.
typedOldValue(aT, oldValue) ==
  IF aT = String THEN prepareString(unescapeString(oldValue))
  ELSE IF aT = Date THEN prepareDate(oldValue)
  ELSE oldValue

\* map(v => (attrType === String ? `"${prepareString(v)}"` : v), value), and
\* [attrType === String ? '""' : ''] for no value: the texts the insert
\* stores.  The empty literal of a type that is not String is no literal.
typedValues(aT, value) ==
  IF value = <<>> THEN <<<<>>>>
  ELSE [k \in DOMAIN value |->
          IF aT = String THEN prepareString(value[k]) ELSE value[k]]

RECURSIVE InsertAll(_, _, _, _)
InsertAll(g, id, key, texts) ==
  IF texts = <<>> THEN g
  ELSE InsertAll(InsertHas(g, id, key, Head(texts)), id, key, Tail(texts))

\* match $m id ..; insert $m has key v1, has key v2 ..;  Every supplied
\* value is attached; nothing is, when the concept does not exist.
createQuery(g, id, key, texts) ==
  IF id \in g.nodes THEN InsertAll(g, id, key, texts) ELSE g

\* The old values read with next() in place of collectConcepts(): the
\* first one alone.
oldValuesFirst(g, id, key) ==
  LET all == SetToSeq({h[3] : h \in {x \in g.has : x[1] = id /\ x[2] = key}})
  IN  IF all = <<>> THEN <<>> ELSE <<Head(all)>>

\* const oldValuesConcept = await oldValIterator.collectConcepts()
oldValuesConcept(g, id, key) ==
  SetToSeq({h[3] : h \in {x \in g.has : x[1] = id /\ x[2] = key}})

\* The count without the $rel($x) pattern: the value nodes, not their
\* referants.
oldNumOfValueNodes(g, key, text) ==
  Cardinality({x \in g.attrs : x = <<key, text>>})

\* match $x isa key; $x == old; $rel($x); get; count;
oldNumOfRef(g, key, text) == Cardinality(Owners(g, key, text))

\* The derived inputs of a statistic date: day, month and year of the
\* first value supplied.
derivedFromLast(key, value) ==
  <<[key |-> key \o "_day", value |-> <<dayFormat(value[Len(value)])>>],
    [key |-> key \o "_month", value |-> <<monthFormat(value[Len(value)])>>],
    [key |-> key \o "_year", value |-> <<yearFormat(value[Len(value)])>>]>>

derivedInputs(key, value) ==
  <<[key |-> key \o "_day", value |-> <<dayFormat(Head(value))>>],
    [key |-> key \o "_month", value |-> <<monthFormat(Head(value))>>],
    [key |-> key \o "_year", value |-> <<yearFormat(Head(value))>>]>>

\* The frame of updateAttribute in execution: the outermost call, then one
\* after the other the three it makes for a statistic date, each on the
\* transaction of the outermost.
Frame(t) == Head(t.work)

\* 01. match $x type key; get; next(); dataType().  No such type: next() is
\* null and labelAnswer.map() throws.
UpdateLabel(i) ==
  LET t == th[i] IN
  /\ t.pc = "uaLabel"
  /\ \E ok \in BOOLEAN :
       IF ~ ok THEN WriteCatch(i, t, TRUE)
       ELSE IF attrType(Frame(t).key) = "none" THEN WriteCatch(i, t, FALSE)
       ELSE /\ th' = [th EXCEPT ![i].pc = "uaOld"]
            /\ UNCHANGED <<txs, op, graph>>
  /\ UNCHANGED <<session, sessionCalls, loader, calls, last, attrIn, attrOut,
                 answer, record, bus, connection>>

\* 02. match $x id ..; $x has key $old; get $old; collectConcepts()
UpdateOld(i) ==
  LET t == th[i]
      olds == oldValuesConcept(txs[t.tx].wg, t.a.id, Frame(t).key) IN
  /\ t.pc = "uaOld"
  /\ \E ok \in BOOLEAN :
       IF ok
       THEN /\ th' = [th EXCEPT ![i].olds = olds,
                        ![i].pc = IF olds = <<>> THEN "uaCreate" ELSE "uaValue"]
            /\ UNCHANGED <<txs, op, graph>>
       ELSE WriteCatch(i, t, TRUE)
  /\ UNCHANGED <<session, sessionCalls, loader, calls, last, attrIn, attrOut,
                 answer, record, bus, connection>>

\* const oldValue = await oldValuesConcept[i].value()
UpdateValue(i) ==
  LET t == th[i] IN
  /\ t.pc = "uaValue"
  /\ \E ok \in BOOLEAN :
       IF ok
       THEN /\ th' = [th EXCEPT ![i].pc = "uaCount"]
            /\ UNCHANGED <<txs, op, graph>>
       ELSE WriteCatch(i, t, TRUE)
  /\ UNCHANGED <<session, sessionCalls, loader, calls, last, attrIn, attrOut,
                 answer, record, bus, connection>>

\* The text the queries on the old value in turn name.
OldText(t) == typedOldValue(attrType(Frame(t).key), Head(t.olds))

\* The loop goes to its next old value, or on to the insert.
AfterOld(t) ==
  [t EXCEPT !.olds = Tail(@),
            !.pc = IF Tail(t.olds) = <<>> THEN "uaCreate" ELSE "uaValue"]

\* The count query: more than one reference, delete this concept's edge;
\* else look the value node up to delete it.
UpdateCount(i) ==
  LET t == th[i] IN
  /\ t.pc = "uaCount"
  /\ \E ok \in BOOLEAN :
       IF ok
       THEN /\ th' = [th EXCEPT ![i].pc =
                        IF oldNumOfRef(txs[t.tx].wg, Frame(t).key, OldText(t)) > 1
                        THEN "uaDeleteRef" ELSE "uaAttrGet"]
            /\ UNCHANGED <<txs, op, graph>>
       ELSE WriteCatch(i, t, TRUE)
  /\ UNCHANGED <<session, sessionCalls, loader, calls, last, attrIn, attrOut,
                 answer, record, bus, connection>>

\* match $x isa key; $x == old; $rel($x); get $x; next(): with no answer
\* there is no delete query.
UpdateAttrGet(i) ==
  LET t == th[i] IN
  /\ t.pc = "uaAttrGet"
  /\ \E ok \in BOOLEAN :
       IF ok
       THEN /\ th' = [th EXCEPT ![i] =
                        IF Owners(txs[t.tx].wg, Frame(t).key, OldText(t)) # {}
                        THEN [t EXCEPT !.pc = "uaDeleteAttr"]
                        ELSE AfterOld(t)]
            /\ UNCHANGED <<txs, op, graph>>
       ELSE WriteCatch(i, t, TRUE)
  /\ UNCHANGED <<session, sessionCalls, loader, calls, last, attrIn, attrOut,
                 answer, record, bus, connection>>

\* match $x id ..; $x has key $del via $d; $del == old; delete $d;
UpdateDeleteRef(i) ==
  LET t == th[i] IN
  /\ t.pc = "uaDeleteRef"
  /\ \E ok \in BOOLEAN :
       IF ok
       THEN /\ txs' = [txs EXCEPT ![t.tx].wg =
                         DeleteEdge(@, t.a.id, Frame(t).key, OldText(t))]
            /\ th' = [th EXCEPT ![i] = AfterOld(t)]
            /\ UNCHANGED <<op, graph>>
       ELSE WriteCatch(i, t, TRUE)
  /\ UNCHANGED <<session, sessionCalls, loader, calls, last, attrIn, attrOut,
                 answer, record, bus, connection>>

\* match $attr id ..; delete $attr;
UpdateDeleteAttr(i) ==
  LET t == th[i] IN
  /\ t.pc = "uaDeleteAttr"
  /\ \E ok \in BOOLEAN :
       IF ok
       THEN /\ txs' = [txs EXCEPT ![t.tx].wg =
                         DeleteAttr(@, Frame(t).key, OldText(t))]
            /\ th' = [th EXCEPT ![i] = AfterOld(t)]
            /\ UNCHANGED <<op, graph>>
       ELSE WriteCatch(i, t, TRUE)
  /\ UNCHANGED <<session, sessionCalls, loader, calls, last, attrIn, attrOut,
                 answer, record, bus, connection>>

\* The insert of the new values, then the three derived calls of a
\* statistic date, then (tx === null) the reload getById(id, wTx, true).
UpdateCreate(i) ==
  LET t == th[i]
      f == Frame(t)
      aT == attrType(f.key)
      work == IF f.key \in statsDateAttributes
              THEN derivedInputs(f.key, f.value) ELSE Tail(t.work) IN
  /\ t.pc = "uaCreate"
  /\ \E ok \in BOOLEAN :
       IF ok /\ ~ (f.value = <<>> /\ aT # String)
       THEN /\ txs' = [txs EXCEPT ![t.tx].wg =
                         createQuery(@, t.a.id, f.key, typedValues(aT, f.value))]
            /\ th' = [th EXCEPT ![i] =
                        IF work = <<>>
                        THEN [t EXCEPT !.work = work, !.pc = "query",
                                       !.cur = "getById", !.own = FALSE,
                                       !.ret = "uaCommit"]
                        ELSE [t EXCEPT !.work = work, !.pc = "uaLabel"]]
            /\ UNCHANGED <<op, graph>>
       ELSE WriteCatch(i, t, TRUE)
  /\ UNCHANGED <<session, sessionCalls, loader, calls, last, attrIn, attrOut,
                 answer, record, bus, connection>>

\* await wTx.commit(); return result;
UpdateCommit(i) ==
  LET t == th[i] IN
  /\ t.pc = "uaCommit"
  /\ \E ok \in BOOLEAN :
       IF ok
       THEN /\ Commit(t)
            /\ Finish(i, t, t.node)
       ELSE WriteCatch(i, t, TRUE)
  /\ UNCHANGED <<session, sessionCalls, loader, calls, last, attrIn, attrOut,
                 answer, record, bus, connection>>

\* notify(topic, instance): if (pubsub) pubsub.publish(topic, {instance, ..});
\* return instance;  run as the .then handler of threatActorAddRelation.
notify(i) ==
  LET t == th[i] IN
  /\ t.pc = "then"
  /\ \E pubsub \in BOOLEAN :
       bus' = IF pubsub
              THEN Append(bus, [topic |-> "EDIT_TOPIC", instance |-> t.node])
              ELSE bus
  /\ Finish(i, t, t.node)
  /\ UNCHANGED <<session, sessionCalls, loader, graph, txs, calls, last,
                 attrIn, attrOut, answer, record, connection>>

\* ------------------------------------------------------------ the callers
\* One action per exported operation: the caller's invocation, with its
\* arguments drawn from the sets given.
One(fn, cur, kind, a) == <<Thread(fn, cur, kind, a), IdleT>>

getById(Ids) ==
  \E id \in Ids :
    LET a == [NoArgs EXCEPT !.id = id] IN
    Start("getById", a, One("getById", "getById", "read", a))

queryOne(Qs) ==
  \E q \in Qs :
    LET a == [NoArgs EXCEPT !.q = q] IN
    Start("queryOne", a, One("queryOne", "queryOne", "read", a))

queryMultiple(Qs) ==
  \E q \in Qs :
    LET a == [NoArgs EXCEPT !.q = q] IN
    Start("queryMultiple", a, One("queryMultiple", "queryMultiple", "read", a))

getRelationById(Ids) ==
  \E id \in Ids :
    LET a == [NoArgs EXCEPT !.q = {id}] IN
    Start("getRelationById", a,
          One("getRelationById", "getRelationById", "read", a))

\* The relations the engine infers for a pattern: r1 for InferredPattern.
InferredPattern == <<36, 59>>

patternAnswers(text) == IF text = InferredPattern THEN {"r1"} ELSE {}

getRelationInferredById(Tokens) ==
  \E id \in Tokens :
    LET a == [NoArgs EXCEPT !.token = id,
                            !.q = patternAnswers(decodedQuery(id))] IN
    Start("getRelationInferredById", a,
          One("getRelationInferredById", "getRelationInferredById", "read", a))

getSingleValue(Qs) ==
  \E q \in Qs, agg \in BOOLEAN :
    LET a == [NoArgs EXCEPT !.q = q, !.agg = agg] IN
    Start("getSingleValue", a, One("getSingleValue", "getSingleValue", "read", a))

getObjects(Qs) ==
  \E q \in Qs :
    LET a == [NoArgs EXCEPT !.q = q] IN
    Start("getObjects", a, One("getObjects", "getObjects", "read", a))

getRelations(Qs) ==
  \E q \in Qs :
    LET a == [NoArgs EXCEPT !.q = q] IN
    Start("getRelations", a, One("getRelations", "getRelations", "read", a))

timeSeries(Qs) ==
  \E q \in Qs :
    LET a == [NoArgs EXCEPT !.q = q] IN
    Start("timeSeries", a, One("timeSeries", "timeSeries", "read", a))

distribution(Qs) ==
  \E q \in Qs :
    LET a == [NoArgs EXCEPT !.q = q] IN
    Start("distribution", a, One("distribution", "distribution", "read", a))

\* const count = getSingleValueNumber(`.. count;`); const elements =
\* getObjects(..); return Promise.all([count, elements]).then(..): both are
\* started before either is awaited.
\* instanceKey = /../.exec(query)[1] comes first, outside any try and
\* any promise: without a match paginate throws a TypeError to its caller.
paginate(Qs, Texts, Firsts, Afters) ==
  \E q \in Qs, query \in Texts, first \in Firsts, after \in Afters :
    LET a == [NoArgs EXCEPT !.q = q, !.first = first, !.after = after,
                            !.offset = pageOffset(after), !.query = query]
    IN
    IF instanceKey(query) = ""
    THEN StartThrown("paginate", a, Err("TypeError"))
    ELSE Start("paginate", a,
               <<Thread("getSingleValueNumber", "getSingleValue", "read",
                        [a EXCEPT !.agg = TRUE]),
                 Thread("getObjects", "getObjects", "read",
                        [a EXCEPT !.paged = TRUE])>>)

paginateRelationships(Qs, Firsts, Afters) ==
  \E q \in Qs, first \in Firsts, after \in Afters :
    LET a == [NoArgs EXCEPT !.q = q, !.first = first, !.after = after,
                            !.offset = pageOffset(after)]
    IN
    Start("paginateRelationships", a,
          <<Thread("getSingleValueNumber", "getSingleValue", "read",
                   [a EXCEPT !.agg = TRUE]),
            Thread("getRelations", "getRelations", "read",
                   [a EXCEPT !.paged = TRUE])>>)

write(Ids) ==
  \E id \in Ids \ graph.nodes :
    LET a == [NoArgs EXCEPT !.id = id] IN
    Start("write", a, One("write", "write", "write", a))

createRelation(Ids, Tos) ==
  \E id \in Ids, to \in Tos :
    LET a == [NoArgs EXCEPT !.id = id, !.to = to] IN
    /\ FreshRels \ graph.nodes # {}
    /\ Start("createRelation", a,
             One("createRelation", "createRelation", "write", a))

\* createRelation(threatActorId, input).then(threatActor => notify(..))
threatActorAddRelation(Ids, Tos) ==
  \E id \in Ids, to \in Tos :
    LET a == [NoArgs EXCEPT !.id = id, !.to = to] IN
    /\ FreshRels \ graph.nodes # {}
    /\ Start("threatActorAddRelation", a,
             One("threatActorAddRelation", "createRelation", "write", a))

\* updateAttribute(id, {key, value}) with tx = null.
updateAttribute(Ids, Inputs) ==
  \E id \in Ids, key \in DOMAIN Inputs :
    \E value \in Inputs[key] :
      LET a == [NoArgs EXCEPT !.id = id, !.key = key, !.value = value] IN
      Start("updateAttribute", a,
            <<[Thread("updateAttribute", "updateAttribute", "write", a)
                 EXCEPT !.work = <<[key |-> key, value |-> value]>>],
              IdleT>>)

deleteEntityById(Ids) ==
  \E id \in Ids :
    LET a == [NoArgs EXCEPT !.id = id] IN
    Start("deleteEntityById", a,
          One("deleteEntityById", "deleteEntityById", "write", a))

deleteById(Ids) ==
  \E id \in Ids :
    LET a == [NoArgs EXCEPT !.id = id] IN
    Start("deleteById", a, One("deleteById", "deleteById", "write", a))

deleteRelationById(Ids, Rels) ==
  \E id \in Ids, rel \in Rels :
    LET a == [NoArgs EXCEPT !.id = id, !.to = rel] IN
    Start("deleteRelationById", a,
          One("deleteRelationById", "deleteRelationById", "write", a))

\* ------------------------------------------------------- the specification
\* A store of two entities that share a name, one of them seen on a day,
\* and a relation between them.
Day0 == <<"2019", "-", "12", "-", "31", "T", "00:00:00">>
Day1 == <<"2020", "-", "01", "-", "02", "T", "00:00:00">>

GraphOf(nodes, rels, has) ==
  [nodes |-> nodes, rels |-> rels, has |-> has,
   attrs |-> {<<h[2], h[3]>> : h \in has}]

Graph0 ==
  GraphOf({"c1", "c2", "r1"}, {<<"r1", "c1", "c2">>},
          {<<"c1", "name", <<"a">>>>, <<"c2", "name", <<"a">>>>,
           <<"c1", "first_seen", Day0>>,
           <<"c1", "first_seen_day", dayFormat(Day0)>>,
           <<"c1", "first_seen_month", monthFormat(Day0)>>,
           <<"c1", "first_seen_year", yearFormat(Day0)>>})

EntityIds == {"c1", "V9"}
RelationIds == {"r1", "V9"}
EntityQueries == {{}, {"c1", "c2"}}
RelationQueries == {{}, {"r1"}}

\* The query of findAll, and one of markingDefinitions' kind that begins
\* with a relation.
QueryTexts ==
  {<<"match", " ", "$", "m", " ", "isa", " ", "Sector">>,
   <<"match", " ", "(", "marking", ":", "$", "m", ",", " ", "so", ":", "$",
     "x", ")">>}

\* The token of r1's pattern, that of a pattern nothing is inferred for,
\* and that of a text without a relation.
InferenceTokens ==
  {inferenceToken(InferredPattern), inferenceToken(<<36, 36, 59>>),
   inferenceToken(<<59, 36>>)}
UpdateValues(key) ==
  CASE key = "name" -> {<<>>, <<<<"b">>>>}
    [] key = "first_seen" -> {<<Day1>>}
    [] OTHER -> {<<<<"b">>>>}

NoOp == [name |-> "none", st |-> "idle", res |-> NoRes, a |-> NoArgs]
NoOut == [done |-> FALSE, rec |-> <<>>]

\* A concept as getAttributes reads it: its id and its entity_type.
Concept(id, type) == [id |-> id, entity_type |-> type]
NoConcept == Concept("none", "none")

\* An answer of a relation query: the relation (its id, the label of its
\* type, its relationship_type attribute, whether a rule inferred it, the
\* concepts that play its source and target roles), the concepts the engine
\* bound to $from and $to, the query pattern of its explanation and the
\* answers of that explanation.
NoAnswer ==
  [fn |-> "none", id |-> "none", label |-> "none", relationship_type |-> "none",
   inferred |-> FALSE, source |-> NoConcept, target |-> NoConcept,
   from |-> NoConcept, to |-> NoConcept, pattern |-> <<>>,
   explanation |-> <<>>]

NoRecord ==
  [done |-> FALSE, by |-> "none", id |-> <<>>, relationship_type |-> "none",
   inferred |-> FALSE, from |-> NoConcept, to |-> NoConcept,
   decodedQuery |-> <<>>, inferences |-> <<>>, attributes |-> FALSE]

\* The connection of a list view that has loaded nothing.
NoConnection == [edges |-> <<>>, pages |-> 0]

InitBase ==
  /\ session = 0
  /\ sessionCalls = 1
  /\ loader = "pending"
  /\ txs = <<>>
  /\ op = NoOp
  /\ th = <<IdleT, IdleT>>
  /\ calls = 0
  /\ last = NoLast
  /\ attrOut = NoOut
  /\ record = NoRecord
  /\ bus = <<>>
  /\ connection = NoConnection

Init ==
  InitBase /\ answer = NoAnswer
  /\ graph = Graph0 /\ attrIn = <<>>

Next ==
  \/ LoadSession
  \/ \E i \in 1..2 : takeReadTx(i)
  \/ \E i \in 1..2 : takeWriteTx(i)
  \/ \E i \in 1..2 : SessionCreated(i)
  \/ \E i \in 1..2 : ReadQuery(i)
  \/ \E i \in 1..2 : ReadFetch(i)
  \/ \E i \in 1..2 : ReadAttrs(i)
  \/ \E i \in 1..2 : ReadClose(i)
  \/ \E i \in 1..2 : WriteQuery(i)
  \/ \E i \in 1..2 : WriteCommit(i)
  \/ \E i \in 1..2 : CreateQuery(i)
  \/ \E i \in 1..2 : CreateAttrs(i)
  \/ \E i \in 1..2 : CreateCommit(i)
  \/ \E i \in 1..2 : DeleteQuery(i)
  \/ \E i \in 1..2 : DeleteCommit(i)
  \/ \E i \in 1..2 : UpdateLabel(i)
  \/ \E i \in 1..2 : UpdateOld(i)
  \/ \E i \in 1..2 : UpdateValue(i)
  \/ \E i \in 1..2 : UpdateCount(i)
  \/ \E i \in 1..2 : UpdateAttrGet(i)
  \/ \E i \in 1..2 : UpdateDeleteRef(i)
  \/ \E i \in 1..2 : UpdateDeleteAttr(i)
  \/ \E i \in 1..2 : UpdateCreate(i)
  \/ \E i \in 1..2 : UpdateCommit(i)
  \/ \E i \in 1..2 : notify(i)
  \/ calls < MaxOps /\ getById(EntityIds)
  \/ calls < MaxOps /\ queryOne(EntityQueries)
  \/ calls < MaxOps /\ queryMultiple(EntityQueries)
  \/ calls < MaxOps /\ getRelationById(RelationIds)
  \/ calls < MaxOps /\ getRelationInferredById(InferenceTokens)
  \/ calls < MaxOps /\ getSingleValue(EntityQueries)
  \/ calls < MaxOps /\ getObjects(EntityQueries)
  \/ calls < MaxOps /\ getRelations(RelationQueries)
  \/ calls < MaxOps /\ timeSeries(EntityQueries)
  \/ calls < MaxOps /\ distribution(EntityQueries)
  \/ calls < MaxOps
     /\ paginate(EntityQueries, QueryTexts, {2}, {NoCursor})
  \/ calls < MaxOps
     /\ paginateRelationships(RelationQueries, {2}, {NoCursor})
  \/ calls < MaxOps /\ write({"c3"})
  \/ calls < MaxOps /\ createRelation(EntityIds, {"c2"})
  \/ calls < MaxOps /\ threatActorAddRelation(EntityIds, {"c2"})
  \/ calls < MaxOps
     /\ updateAttribute({"c1"}, [key \in {"name", "first_seen", "nokey"} |->
                                     UpdateValues(key)])
  \/ calls < MaxOps /\ deleteEntityById({"c1"})
  \/ calls < MaxOps /\ deleteById({"c2"})
  \/ calls < MaxOps /\ deleteRelationById({"c1"}, {"r1"})

Spec == Init /\ [][Next]_vars

\* ------------------------------------------- updateAttribute on shared values
\* Stores in which c1 and c2 share values of a single-valued and of a
\* multi-valued type; every stored text is one the layer itself wrote.
Quoted == <<"q", "\"">>

UpdateGraphs ==
  {GraphOf({"c1", "c2"}, {},
           {<<"c1", "name", <<"a">>>>, <<"c2", "name", <<"a">>>>,
            <<"c1", "alias", <<"x">>>>, <<"c1", "alias", <<"y">>>>,
            <<"c2", "alias", <<"x">>>>}),
   GraphOf({"c1", "c2"}, {},
           {<<"c1", "name", prepareString(Quoted)>>,
            <<"c2", "name", <<"b">>>>,
            <<"c1", "alias", <<"x">>>>})}

SeqsUpTo(S, n) == UNION {[1..k -> S] : k \in 0..n}

SharedValues(key) ==
  IF key = "name" THEN SeqsUpTo({<<"a">>, Quoted}, MaxVals)
  ELSE SeqsUpTo({<<"x">>, <<"z">>}, MaxVals)

InitUpdate ==
  InitBase /\ answer = NoAnswer
  /\ graph \in UpdateGraphs /\ attrIn = <<>>

NextUpdate ==
  \/ LoadSession
  \/ takeWriteTx(1)
  \/ SessionCreated(1)
  \/ ReadQuery(1)
  \/ ReadFetch(1)
  \/ ReadAttrs(1)
  \/ UpdateLabel(1)
  \/ UpdateOld(1)
  \/ UpdateValue(1)
  \/ UpdateCount(1)
  \/ UpdateAttrGet(1)
  \/ UpdateDeleteRef(1)
  \/ UpdateDeleteAttr(1)
  \/ UpdateCreate(1)
  \/ UpdateCommit(1)
  \/ calls < MaxUpdates
       /\ updateAttribute({"c1"}, [key \in {"name", "alias"} |->
                                       SharedValues(key)])

SpecUpdate == InitUpdate /\ [][NextUpdate]_vars

\* -------------------------------------------- updateAttribute, two at a time
\* c1 and c2 share the value node of their name and that of an alias.
SharedGraph ==
  GraphOf({"c1", "c2"}, {},
          {<<"c1", "name", <<"a">>>>, <<"c2", "name", <<"a">>>>,
           <<"c1", "alias", <<"x">>>>, <<"c2", "alias", <<"x">>>>})

\* The new values: none of them is a value the store holds.
FreshValues == {<<<<"b">>>>, <<<<"c">>>>}

\* Two callers (two mutations in flight) each invoke updateAttribute, one on
\* c1 and one on c2, for the same key: each call takes its own write
\* transaction and runs as the engine answers it.
updateAttributePair(Values) ==
  \E key \in {"name", "alias"}, v1 \in Values, v2 \in Values :
    LET a1 == [NoArgs EXCEPT !.id = "c1", !.key = key, !.value = v1]
        a2 == [NoArgs EXCEPT !.id = "c2", !.key = key, !.value = v2] IN
    Start("updateAttribute", a1,
          <<[Thread("updateAttribute", "updateAttribute", "write", a1)
               EXCEPT !.work = <<[key |-> key, value |-> v1]>>],
            [Thread("updateAttribute", "updateAttribute", "write", a2)
               EXCEPT !.work = <<[key |-> key, value |-> v2]>>]>>)

InitShared ==
  InitBase /\ answer = NoAnswer
  /\ graph = SharedGraph /\ attrIn = <<>>

NextShared ==
  \/ LoadSession
  \/ \E i \in 1..2 : takeWriteTx(i)
  \/ \E i \in 1..2 : SessionCreated(i)
  \/ \E i \in 1..2 : ReadQuery(i)
  \/ \E i \in 1..2 : ReadFetch(i)
  \/ \E i \in 1..2 : ReadAttrs(i)
  \/ \E i \in 1..2 : UpdateLabel(i)
  \/ \E i \in 1..2 : UpdateOld(i)
  \/ \E i \in 1..2 : UpdateValue(i)
  \/ \E i \in 1..2 : UpdateCount(i)
  \/ \E i \in 1..2 : UpdateAttrGet(i)
  \/ \E i \in 1..2 : UpdateDeleteRef(i)
  \/ \E i \in 1..2 : UpdateDeleteAttr(i)
  \/ \E i \in 1..2 : UpdateCreate(i)
  \/ \E i \in 1..2 : UpdateCommit(i)
  \/ calls < MaxOps /\ updateAttributePair(FreshValues)

SpecShared == InitShared /\ [][NextShared]_vars

\* ------------------------------------------------------------- the deletes
\* Stores in which c1 has relations and attributes, attributes alone, or
\* neither (a concept a query of write inserted bare).
DeleteGraphs ==
  {Graph0,
   GraphOf({"c1", "c2"}, {}, {<<"c1", "name", <<"a">>>>}),
   GraphOf({"c1", "c2", "r1"}, {<<"r1", "c2", "c1">>}, {}),
   GraphOf({"c1", "c2"}, {}, {<<"c2", "name", <<"a">>>>})}

InitDelete ==
  InitBase /\ answer = NoAnswer
  /\ graph \in DeleteGraphs /\ attrIn = <<>>

NextDelete ==
  \/ LoadSession
  \/ takeWriteTx(1)
  \/ SessionCreated(1)
  \/ DeleteQuery(1)
  \/ DeleteCommit(1)
  \/ calls < MaxOps /\ deleteEntityById({"c1", "V9"})
  \/ calls < MaxOps /\ deleteById({"c1", "V9"})

SpecDelete == InitDelete /\ [][NextDelete]_vars

\* ------------------------------------------- the rows, resolved concurrently
\* The functions that resolve their answers with
\* Promise.all(answers.map(async answer => ...)).
RowFns == {"queryMultiple", "getObjects", "getRelations"}

\* const answers = await iterator.collect(); answers.map(async ...) runs every
\* callback up to its first await: each row has issued its first concept call
\* (type() of getAttributes, isInferred() of getRelations) and waits for it.
RowsCollect(i) ==
  LET t == th[i] IN
  /\ t.pc = "fetch" /\ t.cur \in RowFns
  /\ \E ok \in BOOLEAN :
       IF ~ ok THEN ReadCatch(i, t, TRUE)
       ELSE /\ th' = [th EXCEPT ![i].pc = "rows",
                                ![i].rowpc = [k \in DOMAIN t.rows |-> "type"]]
            /\ UNCHANGED <<txs, op>>
  /\ UNCHANGED <<session, sessionCalls, loader, graph, calls, last, attrIn, attrOut,
                 answer, record, bus, connection>>

\* The answer to the call row k waits for arrives.  After the first the
\* callback issues its next call on the concept (attributes()); after the
\* second the row is resolved.  A rejected call rejects the row, and the
\* first rejected row rejects Promise.all: the function, if it still waits
\* for its rows, runs its catch, closes the transaction and returns.  The
\* callbacks of the other rows are not told and go on as their answers arrive.
RowStep(i, k) ==
  LET t == th[i] IN
  /\ k \in DOMAIN t.rowpc
  /\ t.rowpc[k] \in {"type", "attrs"}
  /\ \E ok \in BOOLEAN :
       IF ok
       THEN /\ th' = [th EXCEPT ![i].rowpc[k] =
                                  IF t.rowpc[k] = "type" THEN "attrs" ELSE "done"]
            /\ UNCHANGED <<txs, op>>
       ELSE IF t.pc = "rows"
            THEN ReadCatch(i, [t EXCEPT !.rowpc[k] = "failed"], TRUE)
            ELSE /\ th' = [th EXCEPT ![i].rowpc[k] = "failed"]
                 /\ UNCHANGED <<txs, op>>
  /\ UNCHANGED <<session, sessionCalls, loader, graph, calls, last, attrIn, attrOut,
                 answer, record, bus, connection>>

\* const result = await Promise.resolve(resultPromise): every row resolved.
RowsResolved(i) ==
  LET t == th[i] IN
  /\ t.pc = "rows"
  /\ \A k \in DOMAIN t.rowpc : t.rowpc[k] = "done"
  /\ th' = [th EXCEPT ![i].pc = "close", ![i].res = ReadResult(t)]
  /\ UNCHANGED <<txs, op, session, sessionCalls, loader, graph, calls, last,
                 attrIn, attrOut, answer, record, bus, connection>>

InitRows == InitBase /\ answer = NoAnswer /\ graph = Graph0 /\ attrIn = <<>>

NextRows ==
  \/ LoadSession
  \/ takeReadTx(1)
  \/ SessionCreated(1)
  \/ ReadQuery(1)
  \/ RowsCollect(1)
  \/ \E k \in 1..2 : RowStep(1, k)
  \/ RowsResolved(1)
  \/ ReadClose(1)
  \/ calls < MaxOps /\ queryMultiple(EntityQueries)
  \/ calls < MaxOps /\ getObjects(EntityQueries)
  \/ calls < MaxOps /\ getRelations(RelationQueries)

SpecRows == InitRows /\ [][NextRows]_vars

\* ------------------------------------------------- statistic dates, updated
\* Concepts with a first_seen and its three derived attributes, alone or
\* sharing the value nodes with another concept.
StatsGraphs ==
  {Graph0,
   GraphOf({"c1", "c2"}, {},
           {<<"c1", "first_seen", Day1>>, <<"c2", "first_seen", Day1>>,
            <<"c1", "first_seen_day", dayFormat(Day1)>>,
            <<"c2", "first_seen_day", dayFormat(Day1)>>,
            <<"c1", "first_seen_month", monthFormat(Day1)>>,
            <<"c2", "first_seen_month", monthFormat(Day1)>>,
            <<"c1", "first_seen_year", yearFormat(Day1)>>,
            <<"c2", "first_seen_year", yearFormat(Day1)>>}),
   GraphOf({"c1"}, {}, {<<"c1", "name", <<"a">>>>})}

InitStats ==
  InitBase /\ answer = NoAnswer
  /\ graph \in StatsGraphs /\ attrIn = <<>>

NextStats ==
  \/ LoadSession
  \/ takeWriteTx(1)
  \/ SessionCreated(1)
  \/ ReadQuery(1)
  \/ ReadFetch(1)
  \/ ReadAttrs(1)
  \/ UpdateLabel(1)
  \/ UpdateOld(1)
  \/ UpdateValue(1)
  \/ UpdateCount(1)
  \/ UpdateAttrGet(1)
  \/ UpdateDeleteRef(1)
  \/ UpdateDeleteAttr(1)
  \/ UpdateCreate(1)
  \/ UpdateCommit(1)
  \/ calls < MaxUpdates
     /\ updateAttribute({"c1"},
                        [k \in {"first_seen"} |-> SeqsUpTo({Day0, Day1}, MaxVals)])

SpecStats == InitStats /\ [][NextStats]_vars

\* --------------------------------------------- getAttributes, from the engine
\* A value the engine hands out: a text, or a number (which has no length).
Text(s) == [t |-> "text", s |-> s, n |-> 0]
Num(n) == [t |-> "num", s |-> <<>>, n |-> n]

\* if (type === Date) .. format(dateFormat) + 'Z'; if (type === String) ..
\* the two replaces; any other data type: the value as it is.
transformedVal(attribute) ==
  IF attribute.dataType = Date
    THEN Text(prepareDate(attribute.value.s) \o <<"Z">>)
  ELSE IF attribute.dataType = String
    THEN Text(unescapeString(attribute.value.s))
  ELSE attribute.value

\* chain(toPairs), groupBy(head), map(pluck(1)): the transformed values of
\* one type, in the order the engine handed them out.
grouped(attributesData, key) ==
  LET of == SelectSeq(attributesData, LAMBDA x : x.type = key)
  IN  [k \in DOMAIN of |-> transformedVal(of[k])]

\* head(obj[key]) && head(obj[key]).length > 0
headHasLength(vals) == Head(vals).t = "text" /\ Len(Head(vals).s) > 0

\* The collapse with the test of multipleAttributes left out.
collapseByLength(key, vals) ==
  IF Len(vals) = 1
    THEN [list |-> FALSE, vals |-> <<Head(vals)>>]
  ELSE IF headHasLength(vals) THEN [list |-> TRUE, vals |-> vals]
  ELSE [list |-> TRUE, vals |-> <<>>]

\* obj[key].length === 1 && !includes(key, multipleAttributes) ? head(..)
\*   : head(..) && head(..).length > 0 ? obj[key] : []
collapse(key, vals) ==
  IF Len(vals) = 1 /\ key \notin multipleAttributes
    THEN [list |-> FALSE, vals |-> <<Head(vals)>>]
  ELSE IF headHasLength(vals) THEN [list |-> TRUE, vals |-> vals]
  ELSE [list |-> TRUE, vals |-> <<>>]

transform(attributesData) ==
  [key \in {attributesData[k].type : k \in DOMAIN attributesData} |->
     collapse(key, grouped(attributesData, key))]

\* getAttributes(concept, true), or of a concept the index has nothing of:
\* the record built from the attributes the engine collected.
getAttributes ==
  /\ ~ attrOut.done
  /\ attrOut' = [done |-> TRUE, rec |-> transform(attrIn)]
  /\ UNCHANGED <<session, sessionCalls, loader, graph, txs, op, th, calls,
                 last, attrIn, answer, record, bus, connection>>

\* The attribute edges a concept can have: the stored texts are ones the
\* layer wrote, each type has the data type of the schema.
Attribute(type, value) ==
  [dataType |-> attrType(type), type |-> type, value |-> value]

AttributeEdges ==
  {Attribute(ty, Text(s)) : ty \in {"name", "alias"},
                            s \in {<<>>, <<"a">>, prepareString(Quoted)}}
    \cup {Attribute("first_seen", Text(Day0))}
    \cup {Attribute("weight", Num(n)) : n \in {0, 5}}

NoRepeat(s) == \A j, k \in DOMAIN s : s[j] = s[k] => j = k

AttributeLists == {s \in SeqsUpTo(AttributeEdges, MaxAttrs) : NoRepeat(s)}

InitAttr ==
  InitBase /\ answer = NoAnswer
  /\ graph = EmptyGraph /\ attrIn \in AttributeLists

NextAttr == getAttributes

SpecAttr == InitAttr /\ [][NextAttr]_vars

\* ------------------------------------------------------------- pagination
\* A store of three entities in a chain of two relations.
PageGraph ==
  GraphOf({"c1", "c2", "c3", "r1", "r2"},
          {<<"r1", "c1", "c2">>, <<"r2", "c2", "c3">>},
          {<<"c1", "name", <<"a">>>>})

PageEntityQueries == {{}, {"c1", "c2", "c3"}}

\* The list views page through queries whose instance key is found.
PageQueryTexts == {text \in QueryTexts : instanceKey(text) # ""}
PageRelationQueries == {{}, {"r1", "r2"}}
Firsts == 1..MaxFirst
Afters == {NoCursor} \cup {offsetToCursor(n) : n \in 0..MaxOffset}

\* relay.loadMore of the list view: the same query again, with the end
\* cursor of the page it holds, as long as that page says there is more.
loadMore ==
  /\ calls < MaxPages
  /\ op.name \in PaginateFns /\ op.st = "resolved" /\ op.res.more
  /\ IF op.name = "paginate"
     THEN paginate({op.a.q}, {op.a.query}, {op.a.first}, {op.res.cur})
     ELSE paginateRelationships({op.a.q}, {op.a.first}, {op.res.cur})

InitPage ==
  InitBase /\ answer = NoAnswer
  /\ graph = PageGraph /\ attrIn = <<>>

NextPage ==
  \/ LoadSession
  \/ \E i \in 1..2 : takeReadTx(i)
  \/ \E i \in 1..2 : SessionCreated(i)
  \/ \E i \in 1..2 : ReadQuery(i)
  \/ \E i \in 1..2 : ReadFetch(i)
  \/ \E i \in 1..2 : ReadAttrs(i)
  \/ \E i \in 1..2 : ReadClose(i)
  \/ calls = 0 /\ paginate(PageEntityQueries, PageQueryTexts, Firsts, Afters)
  \/ calls = 0 /\ paginateRelationships(PageRelationQueries, Firsts, Afters)
  \/ loadMore

SpecPage == InitPage /\ [][NextPage]_vars

\* ------------------------------------------------- a list view, page by page
\* The page of a settled call that relay has not yet put in the connection.
PageArrived ==
  op.name = "paginate" /\ op.st = "resolved" /\ connection.pages < calls

\* The connection holds the page alone, dropping those before it.
connectionReplaced ==
  /\ PageArrived
  /\ connection' = [edges |-> op.res.ids, pages |-> calls]
  /\ UNCHANGED <<session, sessionCalls, loader, graph, txs, op, th, calls,
                 last, attrIn, attrOut, answer, record, bus>>

\* @connection(key: "Pagination_sectors"), direction: 'forward': relay
\* appends the edges of the page that arrived to those the list view holds.
connectionUpdated ==
  /\ PageArrived
  /\ connection' = [edges |-> connection.edges \o op.res.ids, pages |-> calls]
  /\ UNCHANGED <<session, sessionCalls, loader, graph, txs, op, th, calls,
                 last, attrIn, attrOut, answer, record, bus>>

InitList == InitPage

\* The list view asks for its first page with no cursor, then loads more
\* from the page info of the connection.
NextList ==
  \/ LoadSession
  \/ \E i \in 1..2 : takeReadTx(i)
  \/ \E i \in 1..2 : SessionCreated(i)
  \/ \E i \in 1..2 : ReadQuery(i)
  \/ \E i \in 1..2 : ReadFetch(i)
  \/ \E i \in 1..2 : ReadAttrs(i)
  \/ \E i \in 1..2 : ReadClose(i)
  \/ calls = 0 /\ paginate(PageEntityQueries, PageQueryTexts, Firsts, {NoCursor})
  \/ connectionUpdated
  \/ connection.pages = calls /\ loadMore

\* Every step that can be taken is taken in the end: the engine answers and
\* the list view goes on loading.
SpecList == InitList /\ [][NextList]_vars /\ WF_vars(NextList)

\* ------------------------------------------------------- relation readers
\* The relation definitions: for each relation type, the entity types of
\* its canonical source and target.
RolesTable ==
  [uses |-> [source |-> "threat-actor", target |-> "malware"],
   targets |-> [source |-> "malware", target |-> "sector"]]

\* isInversed(relationType, fromType, toType): the table has the relation
\* type and the two types are those of its target and of its source.
isInversed(relationType, fromType, toType) ==
  /\ relationType \in DOMAIN RolesTable
  /\ fromType = RolesTable[relationType].target
  /\ toType = RolesTable[relationType].source

\* The record with the endpoints as they were bound, never swapped.
asBound(node, from, to) == [node EXCEPT !.from = from, !.to = to]

\* if (isInversed(node.relationship_type, from.entity_type, to.entity_type))
\*   assoc('from', to), assoc('to', from)  else  assoc('from', from), ..
normalize(node, from, to) ==
  IF isInversed(node.relationship_type, from.entity_type, to.entity_type)
  THEN [node EXCEPT !.from = to, !.to = from]
  ELSE [node EXCEPT !.from = from, !.to = to]

\* What an async method of a concept returns, and what await makes of it.
pending(v) == [t |-> "promise", v |-> v]
awaited(p) == [t |-> "value", v |-> p.v]

\* The test of an if: an object, a promise included, is true.
truthy(x) == x.t = "promise" \/ x.v

\* if (answer.map().get(relationKey).isInferred()) of getObjects.
isInferredTest(a) == truthy(pending(a.inferred))

\* The test on the promise of isInferred(), were it not awaited.
inferredUnawaited(a) == truthy(pending(a.inferred))

\* const relationIsInferred = await relationObject.isInferred();
relationIsInferred(a) == truthy(awaited(pending(a.inferred)))

\* getObjects with a relationKey, one answer: the relation of the row, a
\* stub with the id of the concept or its attributes with inferred: false.
\* The stub's relationship_type is relationType.label(), not awaited.
getObjectsRow ==
  /\ answer.fn = "getObjects" /\ ~ record.done
  /\ record' =
       IF isInferredTest(answer)
       THEN [NoRecord EXCEPT
               !.done = TRUE, !.by = "getObjects", !.id = answer.id,
               !.relationship_type = "promise", !.inferred = TRUE]
       ELSE [NoRecord EXCEPT
               !.done = TRUE, !.by = "getObjects", !.id = answer.id,
               !.relationship_type = answer.relationship_type,
               !.attributes = TRUE]
  /\ UNCHANGED <<session, sessionCalls, loader, graph, txs, op, th, calls,
                 last, attrIn, attrOut, answer, bus, connection>>

\* getRelations, one answer: the stub of an inferred relation (its id the
\* token of the explanation's pattern, its type the label) or the attributes
\* of a materialized one, then the endpoints.
getRelationsRow ==
  /\ answer.fn = "getRelations" /\ ~ record.done
  /\ record' =
       normalize(
         [NoRecord EXCEPT
            !.done = TRUE, !.by = "getRelations",
            !.id = IF relationIsInferred(answer)
                   THEN inferenceToken(answer.pattern) ELSE answer.id,
            !.relationship_type = IF relationIsInferred(answer)
                                  THEN answer.label
                                  ELSE answer.relationship_type,
            !.inferred = relationIsInferred(answer),
            !.attributes = ~ relationIsInferred(answer)],
         answer.from, answer.to)
  /\ UNCHANGED <<session, sessionCalls, loader, graph, txs, op, th, calls,
                 last, attrIn, attrOut, answer, bus, connection>>

\* getRelationById: the attributes of the relation, inferred: false, then
\* the endpoints.
getRelationByIdRow ==
  /\ answer.fn = "getRelationById" /\ ~ record.done
  /\ record' =
       normalize(
         [NoRecord EXCEPT
            !.done = TRUE, !.by = "getRelationById", !.id = answer.id,
            !.relationship_type = answer.relationship_type],
         answer.from, answer.to)
  /\ UNCHANGED <<session, sessionCalls, loader, graph, txs, op, th, calls,
                 last, attrIn, attrOut, answer, bus, connection>>

\* One node of the `inferences` edge list: the relation of an explanation
\* answer, its id the token of its pattern when it is inferred itself, its
\* relationship_type the type the pattern names, its endpoints the concepts
\* bound to the first and to the second role player of the pattern.
inferenceNode(e) ==
  [id |-> IF e.inferred THEN inferenceToken(e.pattern) ELSE e.id,
   inferred |-> e.inferred, relationship_type |-> e.label,
   from |-> e.from, to |-> e.to]

\* getRelationInferredById(id) with the id getRelations gave an inferred
\* relation: the decoded pattern is run again, and the engine binds the
\* endpoints anew.  A text without a relation throws inside the try and
\* a text that is not the pattern has no answer: {} either way.
getRelationInferredByIdRow ==
  /\ record.done /\ record.by = "getRelations" /\ record.inferred
  /\ \E straight \in BOOLEAN :
       record' =
         IF ~ relationShape(decodedQuery(record.id))
            \/ decodedQuery(record.id) # answer.pattern
         THEN [NoRecord EXCEPT !.done = TRUE,
                               !.by = "getRelationInferredById",
                               !.decodedQuery = decodedQuery(record.id)]
         ELSE normalize(
                [NoRecord EXCEPT
                   !.done = TRUE, !.by = "getRelationInferredById",
                   !.id = record.id, !.relationship_type = answer.label,
                   !.inferred = TRUE,
                   !.decodedQuery = decodedQuery(record.id),
                   !.inferences = [k \in DOMAIN answer.explanation |->
                                     inferenceNode(answer.explanation[k])]],
                IF straight THEN answer.source ELSE answer.target,
                IF straight THEN answer.target ELSE answer.source)
  /\ UNCHANGED <<session, sessionCalls, loader, graph, txs, op, th, calls,
                 last, attrIn, attrOut, answer, bus, connection>>

\* The characters of a pattern: '$', ';', and one outside ASCII.
PatternChars == {36, 59, 233}
Patterns == SeqsUpTo(PatternChars, MaxPattern) \ {<<>>}

\* The answers the engine can hand out: a relation of a type of the table,
\* between concepts of its source and target types, bound to $from and $to
\* either way round; materialized, with or without a relationship_type
\* attribute (createRelation writes one only with a stix_id), or inferred.
RelationAnswers ==
  {[fn |-> fn, id |-> <<86, 49>>, label |-> label,
    relationship_type |-> rt, inferred |-> FALSE,
    source |-> Concept("V2", RolesTable[label].source),
    target |-> Concept("V3", RolesTable[label].target),
    from |-> Concept(IF straight THEN "V2" ELSE "V3",
                     IF straight THEN RolesTable[label].source
                     ELSE RolesTable[label].target),
    to |-> Concept(IF straight THEN "V3" ELSE "V2",
                   IF straight THEN RolesTable[label].target
                   ELSE RolesTable[label].source),
    pattern |-> <<>>, explanation |-> <<>>] :
     fn \in {"getRelationById", "getRelations", "getObjects"},
     label \in DOMAIN RolesTable,
     rt \in {"uses", "targets", "undefined"}, straight \in BOOLEAN}

\* The answers of an explanation: relations of the table, materialized or
\* inferred in turn, whose pattern names the source or the target first.
ExplanationAnswers ==
  {[id |-> <<86, 52>>, label |-> label, inferred |-> inferred,
    pattern |-> <<36>>,
    source |-> Concept("V5", RolesTable[label].source),
    target |-> Concept("V6", RolesTable[label].target),
    from |-> Concept(IF straight THEN "V5" ELSE "V6",
                     IF straight THEN RolesTable[label].source
                     ELSE RolesTable[label].target),
    to |-> Concept(IF straight THEN "V6" ELSE "V5",
                   IF straight THEN RolesTable[label].target
                   ELSE RolesTable[label].source)] :
     label \in DOMAIN RolesTable, inferred \in BOOLEAN, straight \in BOOLEAN}

Explanations == SeqsUpTo(ExplanationAnswers, MaxInferences) \ {<<>>}

InferredAnswers ==
  {[a EXCEPT !.fn = "getRelations", !.inferred = TRUE,
             !.relationship_type = "undefined", !.pattern = p,
             !.explanation = e] :
     a \in RelationAnswers, p \in Patterns, e \in Explanations}

InitRel ==
  /\ InitBase /\ graph = EmptyGraph /\ attrIn = <<>>
  /\ answer \in {a \in RelationAnswers :
                   a.relationship_type \in {a.label, "undefined"}}
                \cup InferredAnswers
                \cup {[a EXCEPT !.fn = "getObjects"] :
                        a \in {x \in InferredAnswers :
                                 Len(x.explanation) = 1}}

NextRel ==
  \/ getObjectsRow
  \/ getRelationsRow
  \/ getRelationByIdRow
  \/ getRelationInferredByIdRow

SpecRel == InitRel /\ [][NextRel]_vars

\* ------------------------------------------- paginateRelationships, filters
\* No date given, or no such attribute on the relation.
NoDate == <<>>

\* Dates in the order of time, half a second being finer than a second.
Calendar ==
  <<Day0, Day0 \o <<".400">>, Day0 \o <<".500">>, Day1, Day1 \o <<".500">>>>

Instant(d) == CHOOSE i \in DOMAIN Calendar : Calendar[i] = d

\* `$fs > literal;` and `$fs < literal;` of the engine.
After(d, literal) == Instant(d) > Instant(literal)
Before(d, literal) == Instant(d) < Instant(literal)

\* The literal of a date bound: ${prepareDate(firstSeenStart)}.
dateLiteral(d) == prepareDate(d)

\* { $from isa t1; } or .. or { $from isa head; };
typesClause(types, concept) ==
  \/ \E k \in DOMAIN types : concept.entity_type = types[k]
  \/ concept.entity_type = Head(types)

\* $rel has weight $weight; { $weight == w1; } or .. or { $weight == 0; };
weightsClause(weights, a) ==
  /\ a.weight # -1
  /\ \/ \E k \in DOMAIN weights : a.weight = weights[k]
     \/ a.weight = 0

\* Whether the answer `a` of ${query} satisfies finalQuery: each clause is
\* there when its option is truthy, and all are conjoined.
finalQuery(o, a) ==
  /\ (o.fromId # "" => a.from.id = o.fromId)
  /\ (o.toId # "" => a.to.id = o.toId)
  /\ (Len(o.fromTypes) > 0 => typesClause(o.fromTypes, a.from))
  /\ (Len(o.toTypes) > 0 => typesClause(o.toTypes, a.to))
  /\ ((o.firstSeenStart # NoDate \/ o.firstSeenStop # NoDate) =>
        a.first_seen # NoDate)
  /\ (o.firstSeenStart # NoDate =>
        After(a.first_seen, dateLiteral(o.firstSeenStart)))
  /\ (o.firstSeenStop # NoDate =>
        Before(a.first_seen, dateLiteral(o.firstSeenStop)))
  /\ ((o.lastSeenStart # NoDate \/ o.lastSeenStop # NoDate) =>
        a.last_seen # NoDate)
  /\ (o.lastSeenStart # NoDate =>
        After(a.last_seen, dateLiteral(o.lastSeenStart)))
  /\ (o.lastSeenStop # NoDate =>
        Before(a.last_seen, dateLiteral(o.lastSeenStop)))
  /\ (o.weights.given => weightsClause(o.weights.list, a))

\* The query of the count: finalQuery .. get ..; count;
countQuery(o, a) == finalQuery(o, a)

\* The query of the elements: finalQuery .. get ..; offset ..; limit ..;
elementsQuery(o, a) == finalQuery(o, a)

\* const count = getSingleValueNumber(`${finalQuery} .. count;`), over the
\* one candidate answer.
paginateRelationshipsCount ==
  /\ op.name = "paginateRelationships" /\ op.st = "running"
  /\ op.res.st = "none"
  /\ op' = [op EXCEPT
              !.res = Ok("Number", <<>>,
                         IF countQuery(op.a, answer) THEN 1 ELSE 0),
              !.st = IF record.done THEN "resolved" ELSE @]
  /\ UNCHANGED <<session, sessionCalls, loader, graph, txs, th, calls,
                 last, attrIn, attrOut, answer, record, bus, connection>>

\* const elements = getRelations(`${finalQuery} ..`, 'rel', 'from', 'to'),
\* over the one candidate answer: the record of the relation, endpoints
\* normalized, when the answer satisfies the query.
paginateRelationshipsElements ==
  /\ op.name = "paginateRelationships" /\ op.st = "running"
  /\ ~ record.done
  /\ record' =
       IF elementsQuery(op.a, answer)
       THEN normalize(
              [NoRecord EXCEPT
                 !.done = TRUE, !.by = "getRelations", !.id = answer.id,
                 !.relationship_type = answer.relationship_type],
              answer.from, answer.to)
       ELSE [NoRecord EXCEPT !.done = TRUE]
  /\ op' = [op EXCEPT !.st = IF op.res.st = "ok" THEN "resolved" ELSE @]
  /\ UNCHANGED <<session, sessionCalls, loader, graph, txs, th, calls,
                 last, attrIn, attrOut, answer, bus, connection>>

\* The options of a call: each filter absent or given.
FilterOptions ==
  [fromId : {"", "V2"}, toId : {"", "V3"},
   fromTypes : {<<>>, <<"threat-actor">>, <<"malware", "sector">>},
   toTypes : {<<>>, <<"malware">>},
   firstSeenStart : {NoDate, Day0 \o <<".500">>},
   firstSeenStop : {NoDate, Day1 \o <<".500">>},
   lastSeenStart : {NoDate, Day0},
   lastSeenStop : {NoDate, Day1},
   weights : {[given |-> FALSE, list |-> <<>>], [given |-> TRUE, list |-> <<1>>]}]

\* The candidate answers: a materialized relation bound either way round,
\* with the dates createRelation (whole seconds) or updateAttribute (as
\* given) stored, or none, and a weight or none (-1).
FilterAnswers ==
  {[fn |-> "getRelations", id |-> a.id, label |-> a.label,
    relationship_type |-> a.relationship_type, inferred |-> FALSE,
    source |-> a.source, target |-> a.target, from |-> a.from, to |-> a.to,
    pattern |-> <<>>, explanation |-> <<>>, first_seen |-> fs, last_seen |-> ls, weight |-> w] :
     a \in {r \in RelationAnswers : r.fn = "getRelations"
                                     /\ r.relationship_type = r.label},
     fs \in {NoDate, Day0, Day0 \o <<".400">>, Day1},
     ls \in {NoDate, Day0 \o <<".500">>},
     w \in {-1, 0, 2}}

InitFilter ==
  /\ session = 0 /\ sessionCalls = 1 /\ loader = "pending"
  /\ txs = <<>> /\ th = <<IdleT, IdleT>> /\ calls = 0 /\ last = NoLast
  /\ attrOut = NoOut /\ record = NoRecord /\ bus = <<>>
  /\ connection = NoConnection
  /\ graph = EmptyGraph /\ attrIn = <<>>
  /\ answer \in FilterAnswers
  /\ \E o \in FilterOptions :
       op = [name |-> "paginateRelationships", st |-> "running",
             res |-> NoRes, a |-> o]

NextFilter ==
  \/ paginateRelationshipsCount
  \/ paginateRelationshipsElements

SpecFilter == InitFilter /\ [][NextFilter]_vars

\* ------------------------------------------------------------- the claims
Settled == op.st \in {"resolved", "rejected"}

\* C1: once an operation has resolved or rejected and none of its steps is
\* still in flight, every transaction it acquired is closed or committed,
\* on every path.
C1_TransactionsClosedOnReturn ==
  (Settled /\ Quiet) => \A k \in DOMAIN txs : txs[k].status \in {"closed", "committed"}

\* C2: client.session is invoked at most once per process and every
\* transaction is made from that one session, whatever the interleaving of
\* the module load with the first takes.
C2_OneSession ==
  /\ sessionCalls <= 1
  /\ \A j, k \in DOMAIN txs : txs[j].sess = txs[k].sess

\* C3: a write operation in which any engine call failed (the take of the
\* write transaction and the reload of the record included) rejects with
\* the generic Unknown fault.
C3_WriteFailureIsUnknown ==
  (Settled /\ op.name \in WriteFns /\ th[1].failed)
    => (op.st = "rejected" /\ op.res.kind = "Unknown")

\* C4: a read operation whose query matched nothing, or in which an engine
\* call failed after the read transaction was taken, resolves with its
\* empty default ({} or []) and never rejects.
C4_ReadsResolveWithDefault ==
  (Settled /\ op.name \in ReadFns /\ th[1].tx # 0
     /\ (th[1].empty \/ th[1].failed))
    => (op.st = "resolved" /\ op.res = Default(op.name))

\* C5: when the count query of a pagination call fails on the read path,
\* the count is a safe default and the call still resolves with a page.
C5_CountFailureStillPages ==
  (Settled /\ op.name \in PaginateFns /\ th[1].tx # 0 /\ th[1].failed)
    => (op.st = "resolved" /\ op.res.kind = "Page")

\* C6: once an operation has settled and nothing of it is in flight, each
\* of its write transactions was committed at most once, is closed and
\* uncommitted if an engine call failed in it, and is not left open.
C6_WriteTxCommitDiscipline ==
  (Settled /\ Quiet) =>
    \A k \in DOMAIN txs :
      txs[k].kind = "write" =>
        /\ txs[k].commits <= 1
        /\ txs[k].status # "open"
        /\ txs[k].failed => (txs[k].status = "closed" /\ txs[k].commits = 0)

\* C7: a write operation that owns its transaction and rejects leaves the
\* committed graph as it was when the transaction was taken.
C7_FaultLeavesGraphUnchanged ==
  (Settled /\ op.name \in WriteFns /\ op.st = "rejected" /\ Len(txs) > 0)
    => graph = txs[1].snap

\* The texts updateAttribute was asked to store.
NewTexts == Range(typedValues(attrType(op.a.key), op.a.value))

\* The owners, other than the updated concept, of one of its old values.
OtherOwners(pre, v) == Owners(pre, op.a.key, v) \ {op.a.id}

Updated == op.name = "updateAttribute" /\ op.st = "resolved"

\* C8: after updateAttribute, for each old value of the key on the concept:
\* if other concepts referenced the value node, only this concept's edge is
\* gone and each of them still has the value; if the concept was the only
\* referant, the value node itself is gone (unless the call stores it anew).
C8_ReferenceCounting ==
  Updated =>
    LET pre == txs[1].snap IN
    \A h \in pre.has :
      (h[1] = op.a.id /\ h[2] = op.a.key) =>
        IF OtherOwners(pre, h[3]) # {}
        THEN /\ \A c \in OtherOwners(pre, h[3]) :
                  <<c, op.a.key, h[3]>> \in graph.has
             /\ <<op.a.key, h[3]>> \in graph.attrs
             /\ h[3] \notin NewTexts => h \notin graph.has
        ELSE h[3] \notin NewTexts => <<op.a.key, h[3]>> \notin graph.attrs

\* An update that replaced a shared old value and a sole-referant one.
C8_Witness ==
  /\ Updated
  /\ \E h \in txs[1].snap.has :
       /\ h[1] = op.a.id /\ h[2] = op.a.key /\ h[3] \notin NewTexts
       /\ OtherOwners(txs[1].snap, h[3]) # {}
  /\ \E h \in txs[1].snap.has :
       /\ h[1] = op.a.id /\ h[2] = op.a.key /\ h[3] \notin NewTexts
       /\ OtherOwners(txs[1].snap, h[3]) = {}

\* C9: the same updateAttribute call run a second time, right after the
\* first, leaves the graph the first run left.
C9_UpdateIdempotent ==
  (Updated /\ last.valid /\ last.a = op.a) => graph = last.graph

\* The second of two equal calls has run, on a concept that had shared and
\* unshared values of the key before the first.
C9_Witness ==
  /\ Updated /\ last.valid /\ last.a = op.a
  /\ op.a.value # <<>>
  /\ \E c \in graph.nodes \ {op.a.id}, v \in NewTexts :
       <<c, op.a.key, v>> \in graph.has

\* The raw values of one type among the attribute edges read.
RawOf(key) == SelectSeq(attrIn, LAMBDA x : x.type = key)

\* C10: in the record getAttributes builds from the engine, a type outside
\* the multi-valued set with exactly one value is a scalar (the decoded
\* value); a type of the multi-valued set is always a list, the singleton
\* list of the decoded value when it has exactly one, non-empty, value.
C10_AttributeCollapsing ==
  attrOut.done =>
    \A key \in DOMAIN attrOut.rec :
      /\ (key \notin multipleAttributes /\ Len(RawOf(key)) = 1) =>
           /\ ~ attrOut.rec[key].list
           /\ attrOut.rec[key].vals = <<transformedVal(RawOf(key)[1])>>
      /\ key \in multipleAttributes =>
           /\ attrOut.rec[key].list
           /\ (Len(RawOf(key)) = 1 /\ RawOf(key)[1].value.s # <<>>) =>
                attrOut.rec[key].vals = <<transformedVal(RawOf(key)[1])>>

\* A record built from one value of a single-valued type and one non-empty
\* value of a multi-valued type.
C10_Witness ==
  /\ attrOut.done
  /\ \E key \in DOMAIN attrOut.rec :
       key \notin multipleAttributes /\ Len(RawOf(key)) = 1
  /\ \E key \in DOMAIN attrOut.rec :
       /\ key \in multipleAttributes /\ Len(RawOf(key)) = 1
       /\ RawOf(key)[1].value.s # <<>>

\* A pagination call has resolved with its page.
Paged == op.name \in PaginateFns /\ op.st = "resolved"

\* The offset the call was given: the one its `after` cursor encodes.
GivenOffset ==
  IF op.a.after = NoCursor THEN 0 ELSE cursorToOffset(op.a.after)

\* The count query's result and the rows the page query returned.
GlobalCount == th[1].res.n
Returned == Len(th[2].res.ids)

\* C11: the page has hasNextPage = (offset + returned edges < globalCount)
\* and an end cursor that decodes to offset + returned edges, offset being
\* the decoded `after` (0 if absent) and globalCount the count query's result.
C11_PageEnvelope ==
  Paged =>
    /\ op.res.n = GlobalCount
    /\ op.res.more = (GivenOffset + Len(op.res.ids) < GlobalCount)
    /\ cursorToOffset(op.res.cur) = GivenOffset + Len(op.res.ids)

\* A page asked for after a cursor, with rows on it and more to come.
C11_Witness ==
  /\ Paged /\ op.a.after # NoCursor /\ GivenOffset > 0
  /\ op.res.ids # <<>> /\ op.res.more

C13_OffsetBeyondCount ==
  (Paged /\ GivenOffset >= GlobalCount) =>
    /\ op.res.ids = <<>>
    /\ ~ op.res.more
    /\ op.res.n = Cardinality(op.a.q \cap graph.nodes)

\* A page asked for beyond the last of the rows there are.
C13_Witness ==
  Paged /\ GlobalCount > 0 /\ GivenOffset >= GlobalCount /\ op.res.n > 0

\* C14: the offset a pagination call works with is the one its `after`
\* cursor was made from, and a call given the end cursor of the page before
\* resumes at that page's offset + returned edges.
C14_CursorRoundTrip ==
  (op.name \in PaginateFns /\ op.st # "idle") =>
    /\ \A n \in 0..MaxOffset :
         op.a.after = offsetToCursor(n) => th[2].a.offset = n
    /\ (last.valid /\ op.a.after = last.res.cur) =>
         th[2].a.offset = last.a.offset + Len(last.res.ids)

\* The second page of a list view, asked for with the first one's end cursor.
C14_Witness ==
  /\ Paged /\ last.valid /\ op.a.after = last.res.cur
  /\ Len(last.res.ids) > 0 /\ op.res.ids # <<>>

\* The values of a key on a concept.
ValuesOf(g, id, key) == {h[3] : h \in {e \in g.has : e[1] = id /\ e[2] = key}}

\* C16: an updateAttribute on a statistic date that has resolved left on the
\* concept, as the only values of <key>_day, <key>_month and <key>_year, the
\* YYYY-MM-DD, YYYY-MM and YYYY of the first supplied value, next to the
\* supplied values of the key itself; the call used one write transaction
\* and committed it once, and until that commit the graph is the one the
\* call found, so the four attributes appear together.
C16_StatsDatesDerived ==
  /\ (Updated /\ op.a.key \in statsDateAttributes) =>
       /\ ValuesOf(graph, op.a.id, op.a.key) = Range(op.a.value)
       /\ ValuesOf(graph, op.a.id, op.a.key \o "_day")
            = {dayFormat(Head(op.a.value))}
       /\ ValuesOf(graph, op.a.id, op.a.key \o "_month")
            = {monthFormat(Head(op.a.value))}
       /\ ValuesOf(graph, op.a.id, op.a.key \o "_year")
            = {yearFormat(Head(op.a.value))}
       /\ Len(txs) = 1
       /\ txs[1].kind = "write" /\ txs[1].commits = 1
  /\ (op.name = "updateAttribute" /\ op.st = "running" /\ txs # <<>>) =>
       (Len(txs) = 1 /\ txs[1].commits = 0 /\ graph = txs[1].snap)

\* A first_seen of two values has been stored over another day's, the
\* derived values replaced by those of the first value.
C16_Witness ==
  /\ Updated /\ op.a.key \in statsDateAttributes
  /\ Len(op.a.value) = 2 /\ op.a.value[1] # op.a.value[2]
  /\ ValuesOf(txs[1].snap, op.a.id, op.a.key \o "_year")
       = {yearFormat(op.a.value[2])}
  /\ ValuesOf(graph, op.a.id, op.a.key \o "_year")
       = {yearFormat(Head(op.a.value))}

\* The call updateAttribute makes to itself on the transaction of its caller
\* is in execution.
InCallerTx(t) ==
  /\ t.fn = "updateAttribute" /\ t.pc \notin {"idle", "take", "done"}
  /\ t.work # <<>> /\ Frame(t).key # t.a.key

\* C17: an updateAttribute running on the transaction of its caller leaves
\* that transaction open and uncommitted; an updateAttribute without a
\* transaction that has resolved, on a concept of the graph, opened one
\* write transaction, committed it once and returned the record of the
\* concept reloaded in that transaction.
C17_TransactionOwnership ==
  /\ (op.name = "updateAttribute" /\ InCallerTx(th[1])) =>
       (txs[th[1].tx].status = "open" /\ txs[th[1].tx].commits = 0)
  /\ (Updated /\ op.a.id \in txs[1].snap.nodes) =>
       /\ Len(txs) = 1
       /\ txs[1].kind = "write" /\ txs[1].commits = 1
       /\ op.res = Ok("Obj", <<op.a.id>>, 0)

\* C18: after deleteById or deleteEntityById of a concept of the graph, each
\* value the concept alone referenced is gone from the graph as a node, and
\* each value another concept referenced too is still attached to that one.
C18_DeleteReferenceCounting ==
  (op.name \in {"deleteById", "deleteEntityById"} /\ op.st = "resolved"
   /\ op.a.id \in txs[1].snap.nodes) =>
    LET pre == txs[1].snap IN
    \A h \in pre.has :
      h[1] = op.a.id =>
        IF Owners(pre, h[2], h[3]) \ {op.a.id} = {}
        THEN <<h[2], h[3]>> \notin graph.attrs
        ELSE /\ \A c \in Owners(pre, h[2], h[3]) \ {op.a.id} :
                  <<c, h[2], h[3]>> \in graph.has
             /\ <<h[2], h[3]>> \in graph.attrs

\* C20: a relation paginateRelationships returns has from = fromId and
\* to = toId when given, a from type (a to type) among fromTypes (toTypes)
\* when the list is not empty, a first_seen strictly between firstSeenStart
\* and firstSeenStop and a last_seen strictly between lastSeenStart and
\* lastSeenStop, for those that are given; and the count query counts the
\* relation exactly when the page query returns it.
C20_FiltersConjunctive ==
  (op.name = "paginateRelationships" /\ op.st = "resolved") =>
    /\ (op.res.n = 1) = (record.by = "getRelations")
    /\ record.by = "getRelations" =>
         /\ (op.a.fromId # "" => record.from.id = op.a.fromId)
         /\ (op.a.toId # "" => record.to.id = op.a.toId)
         /\ (Len(op.a.fromTypes) > 0 =>
               \E k \in DOMAIN op.a.fromTypes :
                 record.from.entity_type = op.a.fromTypes[k])
         /\ (Len(op.a.toTypes) > 0 =>
               \E k \in DOMAIN op.a.toTypes :
                 record.to.entity_type = op.a.toTypes[k])
         /\ (op.a.firstSeenStart # NoDate =>
               /\ answer.first_seen # NoDate
               /\ Instant(answer.first_seen) > Instant(op.a.firstSeenStart))
         /\ (op.a.firstSeenStop # NoDate =>
               /\ answer.first_seen # NoDate
               /\ Instant(answer.first_seen) < Instant(op.a.firstSeenStop))
         /\ (op.a.lastSeenStart # NoDate =>
               /\ answer.last_seen # NoDate
               /\ Instant(answer.last_seen) > Instant(op.a.lastSeenStart))
         /\ (op.a.lastSeenStop # NoDate =>
               /\ answer.last_seen # NoDate
               /\ Instant(answer.last_seen) < Instant(op.a.lastSeenStop))

\* C21: a message is published only by the notify that follows a resolved
\* createRelation in threatActorAddRelation, on the edit topic, when the one
\* write transaction of createRelation is already committed; an operation
\* that rejects publishes nothing, and no operation of the core publishes.
C21_PublishAfterCommit ==
  /\ [][bus' # bus =>
          /\ op.name \in ThenNotifyFns /\ op.st = "running"
          /\ Len(txs) = 1 /\ txs[1].kind = "write"
          /\ txs[1].status = "committed" /\ txs[1].commits = 1
          /\ graph = MergeCommit(graph, txs[1].snap, txs[1].wg)
          /\ op'.st = "resolved"
          /\ bus' = Append(bus, [topic |-> "EDIT_TOPIC",
                                 instance |-> op'.res])]_vars
  /\ [][(op.st = "rejected" \/ op'.st = "rejected") => bus' = bus]_vars

\* threatActorAddRelation has resolved with the new relation in the graph
\* and its message on the bus.
C21_Witness ==
  /\ op.name = "threatActorAddRelation" /\ op.st = "resolved"
  /\ Len(bus) = 1 /\ bus[1].instance = op.res
  /\ \E r \in graph.rels : r[1] \notin txs[1].snap.nodes

\* C22: in the record getAttributes builds from the engine, a group of two
\* or more values of one type, and the one value of a multi-valued type, is
\* the list of all its decoded values in order; it is the empty list only
\* when the group is the empty string alone.
C22_GroupsKeptAsLists ==
  attrOut.done =>
    \A key \in DOMAIN attrOut.rec :
      (Len(RawOf(key)) >= 2 \/ key \in multipleAttributes) =>
        /\ attrOut.rec[key].list
        /\ attrOut.rec[key].vals =
             IF Len(RawOf(key)) = 1 /\ RawOf(key)[1].value = Text(<<>>)
             THEN <<>>
             ELSE [k \in DOMAIN RawOf(key) |-> transformedVal(RawOf(key)[k])]

\* C23: after an updateAttribute that resolved, on a concept of the graph,
\* the concept has exactly one value of a key outside multipleAttributes,
\* however many values were supplied, and exactly the supplied values of a
\* key of multipleAttributes.
C23_ValueCardinality ==
  (Updated /\ op.a.id \in txs[1].snap.nodes) =>
    IF op.a.key \notin multipleAttributes
    THEN Cardinality(ValuesOf(graph, op.a.id, op.a.key)) = 1
    ELSE ValuesOf(graph, op.a.id, op.a.key)
           = {prepareString(op.a.value[k]) : k \in DOMAIN op.a.value}

\* C24: with a weights list given, a relation paginateRelationships returns
\* or counts has a weight that is one of the list.
C24_WeightsAllowList ==
  (op.name = "paginateRelationships" /\ op.st = "resolved"
   /\ op.a.weights.given) =>
    ((record.by = "getRelations" \/ op.res.n = 1) =>
       \E k \in DOMAIN op.a.weights.list :
         answer.weight = op.a.weights.list[k])

\* C25: each node of the inferences edge list of a record of
\* getRelationInferredById has the source of its relation as `from` and the
\* target as `to`.
C25_InferencesNormalized ==
  (record.done /\ record.by = "getRelationInferredById") =>
    \A k \in DOMAIN record.inferences :
      /\ record.inferences[k].from = answer.explanation[k].source
      /\ record.inferences[k].to = answer.explanation[k].target

\* C26: the relation of a row of getObjects is the stub with inferred: true
\* exactly when the relation concept is inferred; a materialized relation
\* has its attributes resolved and inferred: false.
C26_StubIffInferred ==
  (record.done /\ record.by = "getObjects") =>
    /\ record.inferred = answer.inferred
    /\ record.attributes = ~ answer.inferred
    /\ ~ answer.inferred =>
         record.relationship_type = answer.relationship_type

C28_ParseErrorsAbort ==
  /\ (op.name = "paginate" /\ Settled /\ instanceKey(op.a.query) = "") =>
       op.st = "rejected"
  /\ (op.name = "getRelationInferredById" /\ Settled
      /\ ~ relationShape(decodedQuery(op.a.token))) =>
       op.st = "rejected"

\* C29: once deleteEntityById(id) has resolved, no concept of the graph has
\* that id and no relation of the graph has it as an endpoint, whether or
\* not the concept had a relation.
C29_CascadingDelete ==
  (op.name = "deleteEntityById" /\ op.st = "resolved") =>
    /\ op.a.id \notin graph.nodes
    /\ \A r \in graph.rels : op.a.id \notin {r[2], r[3]}

\* C30: no call is issued on a transaction that is no longer open; a row of
\* a concurrent resolution issues its next concept call only while the
\* transaction its concept came from is open.
C30_NoCallAfterClose ==
  [][\A i \in DOMAIN th : \A k \in DOMAIN th[i].rowpc :
       (k \in DOMAIN th'[i].rowpc
        /\ th[i].rowpc[k] = "type" /\ th'[i].rowpc[k] = "attrs")
         => txs[th[i].tx].status = "open"]_vars

\* Both updates of the pair have committed and returned.
BothCommitted ==
  \A i \in 1..2 :
    /\ th[i].fn = "updateAttribute" /\ th[i].pc = "done" /\ th[i].res.st = "ok"
    /\ txs[th[i].tx].status = "committed"

\* C31: once the updates of concepts that shared a value have all committed
\* their new values, however their engine calls interleaved, the old value
\* node that no concept has any more is gone from the graph.
C31_NoOrphanedValues ==
  BothCommitted =>
    \A x \in SharedGraph.attrs :
      Owners(graph, x[1], x[2]) = {} => x \notin graph.attrs

\* The list view holds its last page: one that says there is no more.
LastPage ==
  /\ op.name = "paginate" /\ op.st = "resolved" /\ ~ op.res.more
  /\ connection.pages = calls

\* The edges the list view holds are the matching rows, each one once.
ExactlyOnce ==
  /\ Len(connection.edges) = op.res.n
  /\ Range(connection.edges) = op.a.q \cap graph.nodes
  /\ Cardinality(Range(connection.edges)) = Len(connection.edges)

\* An engine call of the paging sequence failed, or took no transaction.
Faulted == op.st = "rejected" \/ \E i \in 1..2 : th[i].failed

C15_DirectionNormalized ==
  (record.done /\ record.from # NoConcept) =>
    (record.from = answer.source /\ record.to = answer.target)

\* C19: the text getRelationInferredById decodes from the token of an
\* inferred relation is, character for character, the pattern getRelations
\* encoded.
C19_TokenRoundTrip ==
  (record.done /\ record.by = "getRelationInferredById") =>
    record.decodedQuery = answer.pattern
====
